---- MODULE Spec2Model ----
(***************************************************************************)
(* A model of the file-ingestion pipeline of DDR (ddr/DDR/ingest.py):      *)
(* add_local_file, add_external_file, add_access, their helpers            *)
(* (check_dir, checksums, copy_to_workdir, make_access_file,               *)
(* write_object_metadata, move_files, move_new_files_back, predict_staged, *)
(* stage_files) and add_file_commit.                                       *)
(*                                                                         *)
(* The filesystem, the image transform and the version-controlled store    *)
(* are the environment: each call into them draws its outcome from the     *)
(* outcomes the call can have (done, silently not done, raised).           *)
(*                                                                         *)
(* Beside the pipeline, each under a specification of its own:             *)
(* predict_staged and the scratch paths as functions of their arguments,   *)
(* locking (models.lock, unlock, locked), batch.update_files and its       *)
(* pre-checks, vocab.Index, signatures._choose_signatures, two             *)
(* stage_files calls interleaved on the repository of one collection, and  *)
(* signatures.choose, find_updates and write_updates run twice.            *)
(***************************************************************************)
EXTENDS Integers, Sequences, FiniteSets, TLC

VARIABLES
    pc,            \* position of the caller / of the operation that is running
    attempts,      \* number of ingestion calls begun so far
    faults,        \* number of environment failures drawn so far
    inp,           \* arguments of the current call: the source file, the data
    sums,          \* md5, sha1, sha256 as util.file_hash returned them ("" is falsy)
    fs,            \* paths that exist in the scratch area and the destination tree
    links,         \* the paths of fs that are symlinks (git-annex content-tracked)
    dirs,          \* directories that exist (tmp_dir, dest_dir)
    log,           \* the addfile log: a sequence of entries
    file_objects,  \* entity._file_objects, in memory
    entity_json,   \* the file list persisted in entity.json
    file_,         \* the File object under construction
    tmp_access_path, \* what make_access_file returned
    new_files,     \* the relocation list of (tmp, dest) pairs
    mvnew_fails,   \* what move_files returned to add_local_file
    staged,        \* the store's index: dvcs.list_staged(repo)
    commits,       \* the store's history: a sequence of commits
    changelog,     \* the entries of the entity changelog file
    err,           \* the exception that reached the caller, if any
    pre,           \* history: the state when the current call began
    stg,           \* history: what stage_files computed
    xform,         \* history: how imaging.thumbnail ended in this call
    gate,          \* history: what add_file_commit read
    work,          \* per aggregate: the scratch paths its ingestion derived
    lockfile,      \* per lock path: the texts its lock file holds ({}: no file)
    lock_call,     \* the last call of lock, unlock or locked, and what it returned
    batch,         \* update_files: the CSV, the repository it found, what it wrote
    vocab,         \* vocab.Index: _terms_by_id, _titles_to_ids, _parents_to_children
    index_self,    \* the Index instance the last add was called on
    sig,           \* signatures: the sorted identifiers and the signatures chosen
    runs,          \* two stage_files calls on one repository: its index, each call's locals
    upd            \* signatures.choose, find_updates, write_updates: the JSON on disk, the results

vars == <<pc, attempts, faults, inp, sums, fs, links, dirs, log, file_objects,
          entity_json, file_, tmp_access_path, new_files, mvnew_fails, staged,
          commits, changelog, err, pre, stg, xform, gate, work, lockfile, lock_call,
          batch, vocab, index_self, sig, runs, upd>>

\* the state outside the ingestion pipeline of one aggregate
scratch_vars == <<work>>
lock_vars == <<lockfile, lock_call>>
batch_vars == <<batch>>
vocab_vars == <<vocab, index_self>>
sig_vars == <<sig>>
runs_vars == <<runs>>
upd_vars == <<upd>>
others == <<scratch_vars, lock_vars, batch_vars, vocab_vars, sig_vars, runs_vars,
           upd_vars>>

(***************************************************************************)
(* Bounds of the model.                                                    *)
(***************************************************************************)
MaxAttempts == 1
MaxFaults == 1

(***************************************************************************)
(* Inputs. A SHA-1 digest is a pair <<first 10 hex characters, rest>>; a   *)
(* source file is its digest and the extension of its name.                *)
(***************************************************************************)
Sources == { [sha1 |-> <<"aaaaaaaaaa", "x">>, ext |-> ".tif"],
             [sha1 |-> <<"aaaaaaaaaa", "y">>, ext |-> ".jpg"],
             [sha1 |-> <<"bbbbbbbbbb", "x">>, ext |-> ".jpg"] }
Roles == { "master" }
SrcStates == { "readable", "missing", "unreadable" }
None == [dir |-> <<>>, id |-> <<>>, sfx |-> ""]

Ok(m) == [ok |-> "ok", msg |-> m]
NotOk(m) == [ok |-> "not ok", msg |-> m]
NoErr == [exc |-> "", at |-> "", msg |-> "", paths |-> {}]
Raised(e, at, m) == [exc |-> e, at |-> at, msg |-> m, paths |-> {}]
NoFile == [id |-> <<>>, basename_orig |-> "", path_abs |-> None, json_path |-> None,
           access_abs |-> None, sha1 |-> <<>>]
NoStg == [ran |-> FALSE, already |-> <<>>, planned |-> <<>>, predicted |-> <<>>,
          staged |-> <<>>, raised |-> FALSE]
NoGate == [ran |-> FALSE, staged |-> {}, modified |-> {}, commits |-> <<>>,
           changelog |-> <<>>, git_name |-> "", git_mail |-> "", agent |-> "",
           committed |-> <<>>, ret |-> [file_ |-> <<>>, repo |-> "", log |-> ""]]

Path(d, i, s) == [dir |-> d, id |-> i, sfx |-> s]
EntityJson == Path(<<"entity">>, <<>>, "entity.json")
Changelog == Path(<<"entity">>, <<>>, "changelog")

(***************************************************************************)
(* Identifiers and paths. An identifier is the sequence of its parts: an   *)
(* aggregate (entity or segment) is <<collection, number, ...>>, a file of *)
(* it is the aggregate's parts followed by the role and the first ten      *)
(* characters of the SHA-1. A path is its directory (a sequence of         *)
(* components), the identifier or stem of its basename, and the suffix.    *)
(***************************************************************************)
Entity == <<"ddr-test-123", "1">>
Sha1Prefix(sha1) == sha1[1]
child(parent, role, sha1) == parent \o <<role, Sha1Prefix(sha1)>>
collection_id(fid) == fid[1]
parent_id(fid) == SubSeq(fid, 1, Len(fid) - 2)
role_of(fid) == fid[Len(fid) - 1]
src_basename(i) == [stem |-> "photo", ext |-> i.ext]
destination_path(i, fid) == Path(<<"files">>, fid, src_basename(i).ext)
temporary_path_without_parent(i, fid) ==
    Path(<<"tmp", "file-add", collection_id(fid)>>,
         <<src_basename(i).stem>>, src_basename(i).ext)
temporary_path(i, fid) ==
    Path(<<"tmp", "file-add", collection_id(fid), parent_id(fid)>>,
         <<src_basename(i).stem>>, src_basename(i).ext)
temporary_path_renamed(tmp_path, dest_path) == Path(tmp_path.dir, dest_path.id, dest_path.sfx)
access_filename(path) == Path(path.dir, path.id, "-a.jpg")
access_path(tmp_path_renamed) == Path(tmp_path_renamed.dir, access_filename(tmp_path_renamed).id, access_filename(tmp_path_renamed).sfx)
json_path(fid) == Path(<<"files">>, fid, ".json")
access_abs(fid) == Path(<<"files">>, fid, "-a.jpg")

fidentifier == child(Entity, inp.role, sums.sha1)
dest_path == destination_path(inp, fidentifier)
tmp_path == temporary_path(inp, fidentifier)
tmp_path_renamed == temporary_path_renamed(tmp_path, dest_path)
access_dest_path == access_path(tmp_path_renamed)

(***************************************************************************)
(* The addfile log.                                                        *)
(***************************************************************************)
entry_replaces_last(lg, e) == IF lg = <<>> THEN << e >> ELSE [lg EXCEPT ![Len(lg)] = e]
entry(lg, e) == Append(lg, e)
AttemptLog == SubSeq(log, pre.loglen + 1, Len(log))
NotOkCount(lg) == Cardinality({k \in 1..Len(lg) : lg[k].ok = "not ok"})
Logged(lg, m) == \E k \in 1..Len(lg) : lg[k].msg = m
LastEntry == log[Len(log)]

(***************************************************************************)
(* The aggregates of the scratch-path model: two entities of one           *)
(* collection, a segment of the first, and an entity of another            *)
(* collection. Entity is the aggregate of the pipeline model.              *)
(***************************************************************************)
Aggregates == { Entity, <<"ddr-test-123", "2">>, <<"ddr-test-123", "1", "1">>,
                <<"ddr-test-124", "1">> }
LockPaths == {"collection", "entity"}
Texts == {"we are locked. go away.", "not the right text", "another session"}
NoIndex == [terms_by_id |-> <<>>, titles_to_ids |-> <<>>, parents_to_children |-> <<>>]
NoSig == [identifiers |-> <<>>, pairs |-> <<>>, signature |-> <<>>, signature_id |-> <<>>]
NoBatch == [headers |-> "", rows |-> <<>>, staged |-> FALSE, modified |-> FALSE,
            n |-> 0, git_files |-> <<>>, writes |-> <<>>, exc |-> ""]
NoRuns == [index |-> {}, links |-> {}, moved_back |-> {}, call |-> <<>>]
NoUpdates == [disk |-> <<>>, parents |-> <<>>, nodes |-> <<>>, chosen |-> <<>>,
              updates |-> <<>>, phase |-> "", round |-> 0]
NoCall == [op |-> "", path |-> "", text |-> "", before |-> {}, ret |-> "", read |-> {}]
IdleScratch == work = [a \in Aggregates |-> {}]
IdleLock == lockfile = [p \in LockPaths |-> {}] /\ lock_call = NoCall
IdleBatch == batch = NoBatch
IdleVocab == vocab = NoIndex /\ index_self = ""
IdleSig == sig = NoSig
IdleRuns == runs = NoRuns
IdleUpdates == upd = NoUpdates
IdleOthers ==
    /\ IdleScratch
    /\ IdleLock
    /\ IdleBatch
    /\ IdleVocab
    /\ IdleSig
    /\ IdleRuns
    /\ IdleUpdates

(***************************************************************************)
(* The states a call may start from: an entity without files; an entity    *)
(* whose file File0 was added and committed; an entity whose file File0    *)
(* was added by an earlier call of a batch and is staged, not committed.   *)
(* The caller may name a new log file (log_path), so the log starts empty. *)
(***************************************************************************)
File0 == [id |-> child(Entity, "master", <<"aaaaaaaaaa", "y">>), basename_orig |-> ".jpg",
          path_abs |-> Path(<<"files">>, child(Entity, "master", <<"aaaaaaaaaa", "y">>), ".jpg"),
          json_path |-> Path(<<"files">>, child(Entity, "master", <<"aaaaaaaaaa", "y">>), ".json"),
          access_abs |-> None, sha1 |-> <<"aaaaaaaaaa", "y">>]
Starts == {"empty", "committed", "staged"}
Commit0 == [hexsha |-> 1, message |-> "Added entity file(s)", author |-> <<"">>,
            files |-> {EntityJson, File0.json_path, File0.path_abs, Changelog}]
Entry0 == [messages |-> <<"Added entity file">>, user |-> "gjost",
           mail |-> "gjost@densho.org"]

Init ==
    /\ IdleOthers
    /\ pc = "idle"
    /\ attempts = 0
    /\ faults = 0
    /\ inp = [sha1 |-> <<"", "">>, ext |-> "", role |-> "", src |-> "", external |-> FALSE]
    /\ sums = [md5 |-> "", sha1 |-> <<"", "">>, sha256 |-> ""]
    /\ log = <<>>
    /\ \E start \in Starts :
        /\ fs = IF start = "empty" THEN {} ELSE {File0.json_path, File0.path_abs}
        /\ links = IF start = "empty" THEN {} ELSE {File0.path_abs}
        /\ dirs = IF start = "empty" THEN {} ELSE {"tmp_dir", "dest_dir"}
        /\ file_objects = IF start = "empty" THEN <<>> ELSE <<File0>>
        /\ entity_json = IF start = "empty" THEN <<>> ELSE <<File0>>
        /\ staged = IF start = "staged"
                    THEN {EntityJson, File0.json_path, File0.path_abs} ELSE {}
        /\ commits = IF start = "committed" THEN <<Commit0>> ELSE <<>>
        /\ changelog = IF start = "committed" THEN <<Entry0>> ELSE <<>>
    /\ file_ = NoFile
    /\ tmp_access_path = None
    /\ new_files = <<>>
    /\ mvnew_fails = <<>>
    /\ err = NoErr
    /\ pre = [fs |-> {}, dirs |-> {}, links |-> {}, entity_json |-> <<>>,
              file_objects |-> <<>>, staged |-> {}, loglen |-> 0]
    /\ stg = NoStg
    /\ xform = ""
    /\ gate = NoGate

(***************************************************************************)
(* AddFileLogger.crash: write a 'not ok' entry, then raise.                *)
(***************************************************************************)
crash(lg, m, exception, at) ==
    /\ log' = entry(lg, NotOk(m))
    /\ err' = Raised(exception, at, m)
    /\ pc' = "raised"

(* An exception nobody catches: it reaches the caller with no log entry.   *)
uncaught(lg, exception, at) ==
    /\ log' = lg
    /\ err' = Raised(exception, at, "")
    /\ pc' = "raised"

(* The environment may fail at most MaxFaults times in a run.              *)
Charge(n) ==
    /\ faults + n <= MaxFaults
    /\ faults' = faults + n
Cost(out) == IF out = "ok" THEN 0 ELSE 1

(***************************************************************************)
(* add_local_file, lines 345-357: the logger and the START entries.        *)
(***************************************************************************)
add_local_file_begin ==
    /\ pc = "idle"
    /\ UNCHANGED others
    /\ attempts < MaxAttempts
    /\ attempts' = attempts + 1
    /\ \E s \in Sources, r \in Roles, st \in SrcStates :
          inp' = [sha1 |-> s.sha1, ext |-> s.ext, role |-> r, src |-> st,
                  external |-> FALSE]
    /\ log' = log \o << Ok("----"), Ok("START"), Ok("entity"), Ok("data"),
                        Ok("Examining source file") >>
    /\ pre' = [fs |-> fs, dirs |-> dirs, links |-> links, entity_json |-> entity_json,
               file_objects |-> file_objects, staged |-> staged, loglen |-> Len(log)]
    /\ sums' = [md5 |-> "", sha1 |-> <<"", "">>, sha256 |-> ""]
    /\ file_' = NoFile
    /\ tmp_access_path' = None
    /\ new_files' = <<>>
    /\ mvnew_fails' = <<>>
    /\ err' = NoErr
    /\ stg' = NoStg
    /\ xform' = ""
    /\ gate' = NoGate
    /\ pc' = "check_src"
    /\ UNCHANGED <<faults, fs, links, dirs, file_objects, entity_json, staged,
                   commits, changelog>>

(***************************************************************************)
(* check_dir(label, path, log, mkdir, perm), lines 92-105. exists: the     *)
(* path exists; access: what os.access(path, perm) answers. The result is  *)
(* the log, whether the path exists afterwards, and the crash if any.      *)
(***************************************************************************)
check_dir(lg, label, exists, mkdir, access) ==
    LET lg1 == entry(lg, Ok(label))
        made == exists \/ mkdir
    IN  IF ~made
        THEN [log |-> lg1, exists |-> made, crashed |-> TRUE,
              exc |-> "FileMissingException", msg |-> "does not exist"]
        ELSE IF ~access
        THEN [log |-> lg1, exists |-> made, crashed |-> TRUE,
              exc |-> "Exception", msg |-> "not has permission"]
        ELSE [log |-> lg1, exists |-> made, crashed |-> FALSE, exc |-> "", msg |-> ""]

(***************************************************************************)
(* add_local_file, lines 358-361: the source file is checked and sized.    *)
(***************************************************************************)
check_src ==
    /\ pc = "check_src"
    /\ UNCHANGED others
    /\ LET r == check_dir(log, "check dir src_path", inp.src # "missing", FALSE,
                          inp.src = "readable")
       IN  IF r.crashed
           THEN crash(r.log, r.msg, r.exc, "check_src")
           ELSE /\ log' = entry(r.log, Ok("file size"))
                /\ pc' = "checksums"
                /\ err' = err
    /\ UNCHANGED <<attempts, faults, inp, sums, fs, links, dirs, file_objects,
                   entity_json, file_, tmp_access_path, new_files, mvnew_fails,
                   staged, commits, changelog, pre, stg, xform, gate>>

(***************************************************************************)
(* checksums(src_path, log), lines 107-113. util.file_hash may return an   *)
(* empty digest: bad is the set of algorithms for which it does.           *)
(***************************************************************************)
file_hash(i, algo, bad) == IF algo \in bad THEN "" ELSE algo
file_hash_sha1(i, bad) == IF "sha1" \in bad THEN <<"", "">> ELSE i.sha1

checksums_ok_sha1_only(md5, sha1, sha256) == sha1 # <<"", "">>
checksums_ok_any(md5, sha1, sha256) == sha1 # <<"", "">> \/ md5 # "" \/ sha256 # ""
checksums_ok(md5, sha1, sha256) == sha1 # <<"", "">> /\ md5 # "" /\ sha256 # ""

checksums ==
    /\ pc = "checksums"
    /\ UNCHANGED others
    /\ \E bad \in SUBSET {"md5", "sha1", "sha256"} :
        /\ Charge(IF bad = {} THEN 0 ELSE 1)
        /\ LET md5 == file_hash(inp, "md5", bad)
               sha1 == file_hash_sha1(inp, bad)
               sha256 == file_hash(inp, "sha256", bad)
               lg == log \o << Ok("md5"), Ok("sha1"), Ok("sha256") >>
           IN /\ sums' = [md5 |-> md5, sha1 |-> sha1, sha256 |-> sha256]
              /\ IF ~checksums_ok(md5, sha1, sha256)
                 THEN crash(lg, "Could not calculate checksums", "Exception", "checksums")
                 ELSE /\ log' = lg
                      /\ pc' = "identifier"
                      /\ err' = err
    /\ UNCHANGED <<attempts, inp, fs, links, dirs, file_objects, entity_json,
                   file_, tmp_access_path, new_files, mvnew_fails, staged, commits,
                   changelog, pre, stg, xform, gate>>

(***************************************************************************)
(* add_local_file, lines 366-397: XMP extraction, the identifier, the      *)
(* paths, and the check that dest_path does not exist yet.                 *)
(***************************************************************************)
dest_exists_in_scratch(f, path) == tmp_path_renamed \in f
dest_exists(f, path) == path \in f

identifier ==
    /\ pc = "identifier"
    /\ UNCHANGED others
    /\ LET lg == log \o << Ok("extracting XMP data"), Ok("Identifier"), Ok("idparts"),
                          Ok("identifier"), Ok("Checking files/dirs") >>
       IN  IF dest_exists(fs, dest_path)
           THEN crash(lg, "Can't add. Already exists", "FileExistsException", "identifier")
           ELSE /\ log' = lg
                /\ pc' = "check_dirs"
                /\ err' = err
    /\ UNCHANGED <<attempts, faults, inp, sums, fs, links, dirs, file_objects,
                   entity_json, file_, tmp_access_path, new_files, mvnew_fails,
                   staged, commits, changelog, pre, stg, xform, gate>>

(***************************************************************************)
(* add_local_file, lines 398-399: tmp_dir and dest_dir are made if need be *)
(* and must be writable.                                                   *)
(***************************************************************************)
check_dirs ==
    /\ pc = "check_dirs"
    /\ UNCHANGED others
    /\ \E wtmp \in BOOLEAN, wdest \in BOOLEAN :
        /\ Charge((IF wtmp THEN 0 ELSE 1) + (IF wtmp /\ ~wdest THEN 1 ELSE 0))
        /\ (~wtmp => wdest)
        /\ LET r1 == check_dir(log, "check dir tmp_dir", "tmp_dir" \in dirs, TRUE, wtmp)
               r2 == check_dir(r1.log, "check dir dest_dir", "dest_dir" \in dirs, TRUE, wdest)
           IN  IF r1.crashed
               THEN /\ crash(r1.log, r1.msg, r1.exc, "check_tmp_dir")
                    /\ dirs' = dirs \cup {"tmp_dir"}
               ELSE IF r2.crashed
               THEN /\ crash(r2.log, r2.msg, r2.exc, "check_dest_dir")
                    /\ dirs' = dirs \cup {"tmp_dir", "dest_dir"}
               ELSE /\ log' = entry(r2.log, Ok("Copying to work dir"))
                    /\ pc' = "copy"
                    /\ err' = err
                    /\ dirs' = dirs \cup {"tmp_dir", "dest_dir"}
    /\ UNCHANGED <<attempts, inp, sums, fs, links, file_objects, entity_json,
                   file_, tmp_access_path, new_files, mvnew_fails, staged, commits,
                   changelog, pre, stg, xform, gate>>

(***************************************************************************)
(* shutil.move(src, dst) as the code relies on it: it raises when src does *)
(* not exist; otherwise the environment decides: "ok" moves the file,      *)
(* "noop" leaves both paths as they were without raising (the case the     *)
(* code tests for with os.path.exists), "raise" raises.                    *)
(***************************************************************************)
MoveOutcomes == {"ok", "noop", "raise"}
shutil_move(f, lk, src, dst, out) ==
    IF src \notin f \/ out = "raise"
    THEN [fs |-> f, links |-> lk, raised |-> TRUE]
    ELSE IF out = "noop"
    THEN [fs |-> f, links |-> lk, raised |-> FALSE]
    ELSE [fs |-> (f \ {src}) \cup {dst},
          links |-> IF src \in lk THEN (lk \ {src}) \cup {dst} ELSE lk \ {dst},
          raised |-> FALSE]

(***************************************************************************)
(* copy_to_workdir(src_path, tmp_path, tmp_path_renamed, log), lines       *)
(* 144-158, called at lines 401-402.                                       *)
(***************************************************************************)
copy_to_workdir ==
    /\ pc = "copy"
    /\ UNCHANGED others
    /\ \E cp \in {"ok", "nocopy", "raise"}, mv \in MoveOutcomes :
        /\ Charge(Cost(cp) + (IF cp = "raise" THEN 0 ELSE Cost(mv)))
        /\ (cp = "raise" => mv = "ok")
        /\ LET lg1 == entry(log, Ok("cp"))
               fs1 == IF cp = "ok" THEN fs \cup {tmp_path} ELSE fs
               lk1 == IF cp = "ok" THEN links \ {tmp_path} ELSE links
               lg2 == entry(entry(lg1, Ok("done")), Ok("Renaming"))
               m == shutil_move(fs1, lk1, tmp_path, tmp_path_renamed, mv)
           IN  IF cp = "raise"
               THEN uncaught(lg1, "IOError", "copy") /\ UNCHANGED <<fs, links>>
               ELSE IF tmp_path \notin fs1
               THEN crash(lg1, "Copy failed!", "Exception", "copy") /\ UNCHANGED <<fs, links>>
               ELSE IF m.raised
               THEN uncaught(lg2, "IOError", "rename") /\ fs' = fs1 /\ links' = lk1
               ELSE IF tmp_path_renamed \notin m.fs /\ tmp_path \notin m.fs
               THEN crash(lg2, "File rename failed", "Exception", "rename")
                    /\ fs' = m.fs /\ links' = m.links
               ELSE /\ log' = entry(lg2, Ok("Making access file"))
                    /\ pc' = "access"
                    /\ err' = err
                    /\ fs' = m.fs
                    /\ links' = m.links
    /\ UNCHANGED <<attempts, inp, sums, dirs, file_objects, entity_json, file_,
                   tmp_access_path, new_files, mvnew_fails, staged, commits,
                   changelog, pre, stg, xform, gate>>

(***************************************************************************)
(* make_access_file(src_path, access_dest_path, log), lines 160-195.       *)
(* imaging.thumbnail either raises or returns data describing the output:  *)
(* "ok" a good file, "nofile" no output written, "zero" a zero-length      *)
(* file, "symlink" a symlink, "status" a file and a non-zero exit status.  *)
(* The result is the log, the filesystem and the returned path.            *)
(***************************************************************************)
Transforms == {"ok", "raise", "nofile", "zero", "symlink", "status"}
make_access_file_keeps_partial(lg, f, lk, adp, xf) ==
    [log |-> entry(entry(lg, Ok("access_dest_path")), NotOk("traceback")),
     fs |-> f \cup {adp}, links |-> lk \ {adp}, tmp_access_path |-> adp]
make_access_file(lg, f, lk, adp, xf) ==
    LET lg1 == entry(lg, Ok("access_dest_path"))
        f1 == IF xf \in {"ok", "zero", "symlink", "status"} THEN f \cup {adp} ELSE f
        lk1 == IF xf = "symlink" THEN lk \cup {adp}
               ELSE IF xf \in {"ok", "zero", "status"} THEN lk \ {adp} ELSE lk
        exists == adp \in f1
        size == exists /\ xf # "zero"
        islink == adp \in lk1
        lg2 == lg1 \o << Ok("identify"), Ok("convert cmd"), Ok("convert status") >>
        lg3 == IF xf = "status" THEN entry(lg2, NotOk("convert std_err")) ELSE lg2
        lg4 == IF ~exists THEN entry(lg3, NotOk("Access file was not created!")) ELSE lg3
        lg5 == IF ~size THEN entry(lg4, NotOk("Dest file created but zero length!")) ELSE lg4
        lg6 == IF islink THEN entry(lg5, NotOk("DEST FILE IS A SYMLINK!")) ELSE lg5
    IN  IF xf = "raise"
        THEN [log |-> entry(lg1, NotOk("traceback")), fs |-> f, links |-> lk,
              tmp_access_path |-> None]
        ELSE [log |-> entry(lg6, Ok("done")), fs |-> f1, links |-> lk1,
              tmp_access_path |-> adp]

(***************************************************************************)
(* add_local_file, lines 404-407.                                          *)
(***************************************************************************)
make_access ==
    /\ pc = "access"
    /\ UNCHANGED others
    /\ \E xf \in Transforms :
        /\ Charge(Cost(xf))
        /\ LET lg == IF access_dest_path \in fs
                     THEN entry(log, NotOk("Access tmpfile already exists"))
                     ELSE log
               r == make_access_file(lg, fs, links, access_dest_path, xf)
           IN  /\ log' = entry(r.log, Ok("File object"))
               /\ fs' = r.fs
               /\ links' = r.links
               /\ tmp_access_path' = r.tmp_access_path
               /\ xform' = xf
    /\ pc' = "file_object"
    /\ UNCHANGED <<attempts, inp, sums, dirs, file_objects, entity_json, file_,
                   new_files, mvnew_fails, staged, commits, changelog, err, pre,
                   stg, gate>>

(***************************************************************************)
(* add_local_file, lines 409-442: the File object is filled in and the     *)
(* access file, when there is one, is attached to it (set_access).         *)
(***************************************************************************)
has_access(f, tap) == tap # None /\ tap \in f

file_object ==
    /\ pc = "file_object"
    /\ UNCHANGED others
    /\ LET f0 == [id |-> fidentifier, basename_orig |-> inp.ext,
                  path_abs |-> dest_path, json_path |-> json_path(fidentifier),
                  access_abs |-> None, sha1 |-> sums.sha1]
           lg == log \o << Ok("file_"), Ok("file_.basename_orig"), Ok("file_.path_abs"),
                           Ok("file_.size"), Ok("Attaching access file") >>
       IN  IF has_access(fs, tmp_access_path)
           THEN /\ file_' = [f0 EXCEPT !.access_abs = access_abs(fidentifier)]
                /\ log' = lg \o << Ok("file_.access_rel"), Ok("file_.access_abs"),
                                   Ok("Attaching file to entity") >>
           ELSE /\ file_' = f0
                /\ log' = lg \o << NotOk("no access file"), Ok("Attaching file to entity") >>
    /\ pc' = "attach"
    /\ UNCHANGED <<attempts, faults, inp, sums, fs, links, dirs, file_objects,
                   entity_json, tmp_access_path, new_files, mvnew_fails, staged,
                   commits, changelog, err, pre, stg, xform, gate>>

(***************************************************************************)
(* add_local_file, lines 444-451: entity._file_objects.append(file_).      *)
(***************************************************************************)
attach_file ==
    /\ pc = "attach"
    /\ UNCHANGED others
    /\ file_objects' = Append(file_objects, file_)
    /\ log' = log \o << Ok("done"), Ok("Writing object metadata") >>
    /\ pc' = "write_meta"
    /\ UNCHANGED <<attempts, faults, inp, sums, fs, links, dirs, entity_json,
                   file_, tmp_access_path, new_files, mvnew_fails, staged, commits,
                   changelog, err, pre, stg, xform, gate>>

(***************************************************************************)
(* write_object_metadata(obj, tmp_dir, log), lines 197-203, called at 452. *)
(***************************************************************************)
tmp_json_of(obj) ==
    Path(temporary_path([ext |-> obj.basename_orig], obj.id).dir,
         obj.json_path.id, obj.json_path.sfx)

write_object_metadata ==
    /\ pc = "write_meta"
    /\ UNCHANGED others
    /\ \E wr \in {"ok", "nowrite", "raise"} :
        /\ Charge(Cost(wr))
        /\ LET tmp_json == tmp_json_of(file_)
               lg == entry(log, Ok("tmp_json"))
               fs1 == IF wr = "ok" THEN fs \cup {tmp_json} ELSE fs
           IN  IF wr = "raise"
               THEN uncaught(lg, "IOError", "write_meta") /\ fs' = fs
               ELSE IF tmp_json \notin fs1
               THEN crash(lg, "Could not write file metadata", "Exception", "write_meta")
                    /\ fs' = fs1
               ELSE /\ log' = entry(lg, Ok("Moving files to dest_dir"))
                    /\ pc' = "move"
                    /\ err' = err
                    /\ fs' = fs1
    /\ UNCHANGED <<attempts, inp, sums, links, dirs, file_objects, entity_json,
                   file_, tmp_access_path, new_files, mvnew_fails, staged, commits,
                   changelog, pre, stg, xform, gate>>

(***************************************************************************)
(* move_files(files, log), lines 205-214. outs[i] is the outcome of the    *)
(* i-th shutil.move. The result is the log, the filesystem, the failures   *)
(* list, and whether a shutil.move raised (the exception is not caught).   *)
(***************************************************************************)
RECURSIVE move_files_from(_, _, _, _)
move_files_from(files, i, st, outs) ==
    IF i > Len(files) THEN st
    ELSE LET tmp == files[i][1]
             dest == files[i][2]
             lg == entry(st.log, Ok("mv"))
             m == shutil_move(st.fs, st.links, tmp, dest, outs[i])
         IN  IF m.raised
             THEN [st EXCEPT !.log = lg, !.raised = TRUE]
             ELSE IF dest \notin m.fs
             THEN [st EXCEPT !.log = entry(lg, NotOk("FAIL")), !.fs = m.fs,
                             !.links = m.links, !.failures = Append(@, tmp)]
             ELSE move_files_from(files, i + 1,
                                  [st EXCEPT !.log = lg, !.fs = m.fs, !.links = m.links],
                                  outs)

move_files_unlogged(files, lg, f, lk, outs) ==
    [move_files_from(files, 1,
                     [log |-> lg, fs |-> f, links |-> lk, failures |-> <<>>,
                      raised |-> FALSE],
                     outs) EXCEPT !.log = lg]
move_files(files, lg, f, lk, outs) ==
    move_files_from(files, 1,
                    [log |-> lg, fs |-> f, links |-> lk, failures |-> <<>>,
                     raised |-> FALSE],
                    outs)

(* The outcomes of n moves of which the k-th (if k > 0) ends as kind.      *)
Outs(n, k, kind) == [j \in 1..n |-> IF j = k THEN kind ELSE "ok"]

reverse_files_list(files) == [j \in 1..Len(files) |-> <<files[j][2], files[j][1]>>]

(***************************************************************************)
(* add_local_file, lines 457-473: the relocation list and move_files.      *)
(***************************************************************************)
relocation_list(obj, f, tap) ==
    << <<tmp_json_of(obj), obj.json_path>>, <<tmp_path_renamed, obj.path_abs>> >>
    \o (IF has_access(f, tap) THEN << <<tap, obj.access_abs>> >> ELSE <<>>)

(* add_local_file, line 469: "if mvnew_fails" decides between rollback and  *)
(* going on to entity.json.                                                *)
moved_all_always(failures) == TRUE
moved_all(failures) == failures = <<>>

move_new_files ==
    /\ pc = "move"
    /\ UNCHANGED others
    /\ LET files == relocation_list(file_, fs, tmp_access_path) IN
       \E k \in 0..Len(files), kind \in {"noop", "raise"} :
        /\ (k = 0 => kind = "noop")
        /\ Charge(IF k = 0 THEN 0 ELSE 1)
        /\ LET r == move_files(files, log, fs, links, Outs(Len(files), k, kind))
           IN  /\ new_files' = files
               /\ fs' = r.fs
               /\ links' = r.links
               /\ IF r.raised
                  THEN uncaught(r.log, "IOError", "move") /\ mvnew_fails' = mvnew_fails
                  ELSE /\ mvnew_fails' = r.failures
                       /\ err' = err
                       /\ IF ~moved_all(r.failures)
                          THEN /\ log' = entry(r.log, NotOk("Failed to place one or more new files to destination repo"))
                               /\ pc' = "move_back"
                          ELSE /\ log' = entry(r.log, Ok("all files moved"))
                               /\ pc' = "write_entity"
    /\ UNCHANGED <<attempts, inp, sums, dirs, file_objects, entity_json, file_,
                   tmp_access_path, staged, commits, changelog, pre, stg, xform,
                   gate>>

(***************************************************************************)
(* move_new_files_back(files, failures, log), lines 219-236. The reversed  *)
(* list is computed, and move_files is called with files. Whatever the     *)
(* try block does, the finally block ends in log.crash.                    *)
(***************************************************************************)
move_new_files_back ==
    /\ pc = "move_back"
    /\ UNCHANGED others
    /\ \E k \in 0..Len(new_files), kind \in {"noop", "raise"} :
        /\ (k = 0 => kind = "noop")
        /\ Charge(IF k = 0 THEN 0 ELSE 1)
        /\ LET lg0 == log \o << NotOk("failures"), NotOk("Moving new files back to tmp_dir") >>
               reverse == reverse_files_list(new_files)
               r == move_files(new_files, lg0, fs, links, Outs(Len(new_files), k, kind))
               lg1 == IF r.raised THEN entry(r.log, NotOk("Unexpected error")) ELSE r.log
               lg2 == entry(lg1, NotOk("Failed to place one or more files to destination repo"))
               lg3 == lg2 \o [j \in 1..Len(r.failures) |-> NotOk("fail")]
           IN  /\ fs' = r.fs
               /\ links' = r.links
               /\ crash(lg3, "Bailing out. We are done here.", "Exception", "move_back")
    /\ UNCHANGED <<attempts, inp, sums, dirs, file_objects, entity_json, file_,
                   tmp_access_path, new_files, mvnew_fails, staged, commits,
                   changelog, pre, stg, xform, gate>>

(***************************************************************************)
(* add_local_file, lines 475-479: entity.write_json(force=True) persists   *)
(* the entity with its file list.                                          *)
(***************************************************************************)
write_entity_json ==
    /\ pc = "write_entity"
    /\ UNCHANGED others
    /\ entity_json' = file_objects
    /\ log' = log \o << Ok("Writing entity.json"), Ok("Staging files") >>
    /\ pc' = "stage"
    /\ UNCHANGED <<attempts, faults, inp, sums, fs, links, dirs, file_objects,
                   file_, tmp_access_path, new_files, mvnew_fails, staged, commits,
                   changelog, err, pre, stg, xform, gate>>

(***************************************************************************)
(* Lists and sets.                                                         *)
(***************************************************************************)
Range(q) == {q[j] : j \in 1..Len(q)}
RECURSIVE SetToSeq(_)
SetToSeq(S) == IF S = {} THEN <<>>
               ELSE LET x == CHOOSE y \in S : TRUE IN <<x>> \o SetToSeq(S \ {x})
Keep(q, in) == LET F[j \in 0..Len(q)] ==
                     IF j = 0 THEN <<>>
                     ELSE IF q[j] \in in THEN Append(F[j - 1], q[j]) ELSE F[j - 1]
               IN F[Len(q)]

(***************************************************************************)
(* predict_staged(already, planned), lines 245-259.                        *)
(***************************************************************************)
predict_staged_planned_only(already, planned) == planned
predict_staged(already, planned) ==
    LET additions == Keep(planned, Range(planned) \ Range(already))
    IN  already \o additions

(***************************************************************************)
(* The store (DDR.dvcs): list_staged reads the index; stage and            *)
(* annex_stage register paths, of which the store may leave some out       *)
(* (skip: a path with nothing to register), or raise.                      *)
(***************************************************************************)
list_staged(index) == SetToSeq(index)
dvcs_stage(index, paths, skip) == index \cup (Range(paths) \ skip)
Skips(paths) == {S \in SUBSET Range(paths) : Cardinality(S) <= 1}

(***************************************************************************)
(* stage_files, lines 296-304: the staging is ok when as many paths are    *)
(* staged as were predicted.                                               *)
(***************************************************************************)
stage_ok_always(staged_list, stage_predicted) == TRUE
stage_ok(staged_list, stage_predicted) == Len(staged_list) = Len(stage_predicted)

(***************************************************************************)
(* stage_files, lines 312-317: the cleanup loop over new_files. Each item  *)
(* is unpacked into tmp and dest: an item that is a pair unpacks, an item  *)
(* that is a single path (kept here as a 1-tuple) raises ValueError.       *)
(***************************************************************************)
RECURSIVE cleanup_from(_, _, _, _)
cleanup_from(files, i, st, outs) ==
    IF i > Len(files) THEN st
    ELSE IF Len(files[i]) # 2 THEN [st EXCEPT !.raised = TRUE, !.exc = "ValueError"]
    ELSE LET tmp == files[i][1]
             dest == files[i][2]
         IN  IF dest \in st.links
             THEN cleanup_from(files, i + 1,
                               [st EXCEPT !.log = entry(@, NotOk("link (not moving)"))], outs)
             ELSE LET m == shutil_move(st.fs, st.links, dest, tmp, outs[i])
                      lg == entry(st.log, NotOk("mv back"))
                  IN  IF m.raised
                      THEN [st EXCEPT !.log = lg, !.raised = TRUE, !.exc = "IOError"]
                      ELSE cleanup_from(files, i + 1,
                                        [st EXCEPT !.log = lg, !.fs = m.fs, !.links = m.links],
                                        outs)

(***************************************************************************)
(* stage_files(entity, git_files, annex_files, new_files, log), lines      *)
(* 261-320. files is the new_files argument.                               *)
(***************************************************************************)
stage_files(git_files, annex_files, files) ==
    /\ LET stage_planned == git_files \o annex_files
           stage_already == list_staged(staged)
           stage_predicted == predict_staged(stage_already, stage_planned)
           lg0 == (entry(log, Ok("repo")) \o << Ok("files to stage") >>)
                  \o [j \in 1..Len(stage_planned) |-> Ok("planned")]
       IN
       \E g \in {"ok", "raise"}, a \in {"ok", "raise"},
          gskip \in Skips(git_files), askip \in Skips(annex_files),
          ck \in 0..Len(files) :
        /\ (g = "raise" => a = "ok" /\ gskip = {} /\ askip = {})
        /\ (a = "raise" => askip = {})
        /\ LET index1 == IF g = "ok" THEN dvcs_stage(staged, git_files, gskip) ELSE staged
               index2 == IF g = "ok" /\ a = "ok"
                         THEN dvcs_stage(index1, annex_files, askip) ELSE index1
               lk2 == IF g = "ok" /\ a = "ok"
                      THEN links \cup ((Range(annex_files) \ askip) \cap fs) ELSE links
               raised == g = "raise" \/ a = "raise"
               staged_list == IF raised THEN <<>> ELSE list_staged(index2)
               lg1 == entry(lg0, Ok("git stage"))
               lg2 == IF g = "raise" THEN entry(lg1, NotOk("traceback"))
                      ELSE IF a = "raise"
                      THEN entry(entry(lg1, Ok("annex stage")), NotOk("traceback"))
                      ELSE entry(entry(lg1, Ok("annex stage")), Ok("ok"))
               lg3 == (lg2 \o << Ok("files staged:"), Ok("show_staged") >>)
                      \o [j \in 1..Len(staged_list) |-> Ok("staged")]
               good == stage_ok(staged_list, stage_predicted)
               lg4 == IF good THEN entry(lg3, Ok("files staged (new, modified)"))
                      ELSE entry(entry(lg3, NotOk("new files staged (should be)")),
                                 NotOk("File staging aborted. Cleaning up"))
               c == cleanup_from(files, 1,
                                 [log |-> lg4, fs |-> fs, links |-> lk2, raised |-> FALSE,
                                  exc |-> ""],
                                 Outs(Len(files), ck, "raise"))
           IN  /\ Charge((IF raised THEN 1 ELSE 0) + Cardinality(gskip) + Cardinality(askip)
                         + (IF ck = 0 THEN 0 ELSE 1))
               /\ (good => ck = 0)
               /\ staged' = index2
               /\ stg' = [ran |-> TRUE, already |-> stage_already,
                          planned |-> stage_planned, predicted |-> stage_predicted,
                          staged |-> staged_list, raised |-> raised]
               /\ IF good
                  THEN /\ log' = lg4
                       /\ pc' = "returned"
                       /\ err' = err
                       /\ fs' = fs
                       /\ links' = lk2
                  ELSE /\ fs' = c.fs
                       /\ links' = c.links
                       /\ IF c.raised
                          THEN uncaught(c.log, c.exc, "stage_cleanup")
                          ELSE crash(entry(c.log, NotOk("finished cleanup. good luck...")),
                                     "Add file aborted, see log file for details",
                                     "Exception", "stage")

(***************************************************************************)
(* add_local_file, lines 479-489: the call of stage_files.                 *)
(***************************************************************************)
git_files_of(obj) == << EntityJson, obj.json_path >>
annex_files_of(obj, f) ==
    << obj.path_abs >>
    \o (IF obj.access_abs # None /\ obj.access_abs \in f THEN << obj.access_abs >> ELSE <<>>)

add_local_file_stage ==
    /\ pc = "stage"
    /\ UNCHANGED others
    /\ stage_files(git_files_of(file_), annex_files_of(file_, fs), new_files)
    /\ UNCHANGED <<attempts, inp, sums, dirs, file_objects, entity_json, file_,
                   tmp_access_path, new_files, mvnew_fails, commits, changelog, pre,
                   xform, gate>>

(***************************************************************************)
(* add_external_file(entity, data, ...), lines 518-558: the logger, the    *)
(* START entries, the test of data['external'], the identifier and the     *)
(* File object. When data is not that of an external file, line 532        *)
(* builds its message from file_, which is not bound yet: the exception    *)
(* that reaches the caller follows an 'ok' entry.                          *)
(***************************************************************************)
external_file(data) ==
    [id |-> child(Entity, data.role, data.sha1), basename_orig |-> data.ext,
     path_abs |-> Path(<<"files">>, child(Entity, data.role, data.sha1), data.ext),
     json_path |-> json_path(child(Entity, data.role, data.sha1)),
     access_abs |-> None, sha1 |-> data.sha1]

add_external_file_begin ==
    /\ pc = "idle"
    /\ UNCHANGED others
    /\ attempts < MaxAttempts
    /\ attempts' = attempts + 1
    /\ \E s \in Sources, r \in Roles, x \in BOOLEAN :
        LET data == [sha1 |-> s.sha1, ext |-> s.ext, role |-> r, src |-> "", external |-> x]
            lg == log \o << Ok("----"), Ok("START"), Ok("entity"), Ok("data") >>
        IN  /\ inp' = data
            /\ IF ~data.external
               THEN /\ uncaught(entry(lg, Ok("Regular file (not external)")),
                                "UnboundLocalError", "ext_check")
                    /\ file_' = NoFile
               ELSE /\ log' = lg \o << Ok("Identifier"), Ok("idparts"), Ok("identifier"),
                                      Ok("File object"), Ok("Writing file metadata") >>
                    /\ file_' = external_file(data)
                    /\ err' = NoErr
                    /\ pc' = "ext_write"
    /\ pre' = [fs |-> fs, dirs |-> dirs, links |-> links, entity_json |-> entity_json,
               file_objects |-> file_objects, staged |-> staged, loglen |-> Len(log)]
    /\ sums' = [md5 |-> "", sha1 |-> <<"", "">>, sha256 |-> ""]
    /\ tmp_access_path' = None
    /\ new_files' = <<>>
    /\ mvnew_fails' = <<>>
    /\ stg' = NoStg
    /\ xform' = ""
    /\ gate' = NoGate
    /\ UNCHANGED <<faults, fs, links, dirs, file_objects, entity_json, staged,
                   commits, changelog>>

(***************************************************************************)
(* Entity.load_file_objects(..., force_read=True) reads the entity's File  *)
(* objects anew from the file JSONs in the destination tree: of the        *)
(* objects known, those whose JSON exists, one per JSON path.              *)
(***************************************************************************)
load_file_objects(f, known) ==
    LET F[j \in 0..Len(known)] ==
          IF j = 0 THEN <<>>
          ELSE IF known[j].json_path \in f
                  /\ \A k \in (j + 1)..Len(known) : known[k].json_path # known[j].json_path
               THEN Append(F[j - 1], known[j])
               ELSE F[j - 1]
    IN  F[Len(known)]

(***************************************************************************)
(* add_external_file, lines 561-574: file_.write_json() writes the file    *)
(* JSON at its place in the destination tree, the entity's file objects    *)
(* are loaded again, entity.write_json() persists the entity.              *)
(***************************************************************************)
add_external_file_write ==
    /\ pc = "ext_write"
    /\ UNCHANGED others
    /\ \E wr \in {"ok", "raise"} :
        /\ Charge(Cost(wr))
        /\ IF wr = "raise"
           THEN /\ uncaught(log, "IOError", "ext_write")
                /\ UNCHANGED <<fs, links, file_objects, entity_json>>
           ELSE /\ fs' = fs \cup {file_.json_path}
                /\ links' = links \ {file_.json_path}
                /\ file_objects' = load_file_objects(fs', entity_json \o << file_ >>)
                /\ entity_json' = file_objects'
                /\ log' = log \o << Ok("Attaching file to entity"),
                                   Ok("Writing entity metadata"), Ok("Staging files") >>
                /\ err' = err
                /\ pc' = "ext_stage"
    /\ UNCHANGED <<attempts, inp, sums, dirs, file_, tmp_access_path, new_files,
                   mvnew_fails, staged, commits, changelog, pre, stg, xform, gate>>

(***************************************************************************)
(* add_external_file, lines 575-584: stage_files is given git_files, a     *)
(* list of paths, as its new_files argument.                               *)
(***************************************************************************)
add_external_file_stage ==
    /\ pc = "ext_stage"
    /\ UNCHANGED others
    /\ LET git_files == << EntityJson, file_.json_path >>
           annex_files == <<>>
       IN  stage_files(git_files, annex_files, [j \in 1..Len(git_files) |-> << git_files[j] >>])
    /\ UNCHANGED <<attempts, inp, sums, dirs, file_objects, entity_json, file_,
                   tmp_access_path, new_files, mvnew_fails, commits, changelog, pre,
                   xform, gate>>

(***************************************************************************)
(* add_access(entity, ddrfile, src_path, ...), lines 606-637: ddrfile is   *)
(* one of the entity's files and src_path its binary; the logger, the      *)
(* START entries, the check of src_path, the identifier and the paths.     *)
(* file_ is ddrfile (line 645).                                            *)
(***************************************************************************)
access_src(obj, st) ==
    [sha1 |-> obj.sha1, ext |-> obj.path_abs.sfx, role |-> role_of(obj.id), src |-> st,
     external |-> FALSE]
access_tmp_path(obj) ==
    Path(temporary_path([ext |-> obj.path_abs.sfx], obj.id).dir,
         obj.path_abs.id, obj.path_abs.sfx)
access_tmp_dest(obj) ==
    access_path(temporary_path_renamed(access_tmp_path(obj),
                                       destination_path([ext |-> obj.path_abs.sfx], obj.id)))
access_final_path(obj) == access_abs(obj.id)

add_access_begin ==
    /\ pc = "idle"
    /\ UNCHANGED others
    /\ attempts < MaxAttempts
    /\ attempts' = attempts + 1
    /\ \E j \in 1..Len(file_objects), st \in SrcStates :
        LET ddrfile == file_objects[j]
            lg == log \o << Ok("----"), Ok("START"), Ok("entity"), Ok("ddrfile"),
                            Ok("Checking files/dirs") >>
            r == check_dir(lg, "check dir src_path", st # "missing", FALSE, st = "readable")
        IN  /\ inp' = access_src(ddrfile, st)
            /\ file_' = ddrfile
            /\ IF r.crashed
               THEN crash(r.log, r.msg, r.exc, "acc_check_src")
               ELSE /\ log' = r.log \o << Ok("Identifier"), Ok("file_id"), Ok("basepath"),
                                         Ok("identifier"), Ok("Checking files/dirs") >>
                    /\ err' = NoErr
                    /\ pc' = "acc_check_dirs"
    /\ pre' = [fs |-> fs, dirs |-> dirs, links |-> links, entity_json |-> entity_json,
               file_objects |-> file_objects, staged |-> staged, loglen |-> Len(log)]
    /\ sums' = [md5 |-> "", sha1 |-> <<"", "">>, sha256 |-> ""]
    /\ tmp_access_path' = None
    /\ new_files' = <<>>
    /\ mvnew_fails' = <<>>
    /\ stg' = NoStg
    /\ xform' = ""
    /\ gate' = NoGate
    /\ UNCHANGED <<faults, fs, links, dirs, file_objects, entity_json, staged,
                   commits, changelog>>

(* add_access, lines 638-641.                                              *)
add_access_check_dirs ==
    /\ pc = "acc_check_dirs"
    /\ UNCHANGED others
    /\ \E wtmp \in BOOLEAN, wdest \in BOOLEAN :
        /\ Charge((IF wtmp THEN 0 ELSE 1) + (IF wtmp /\ ~wdest THEN 1 ELSE 0))
        /\ (~wtmp => wdest)
        /\ LET r1 == check_dir(log, "check dir tmp_dir", "tmp_dir" \in dirs, TRUE, wtmp)
               r2 == check_dir(r1.log, "check dir dest_dir", "dest_dir" \in dirs, TRUE, wdest)
           IN  IF r1.crashed
               THEN /\ crash(r1.log, r1.msg, r1.exc, "acc_check_tmp_dir")
                    /\ dirs' = dirs \cup {"tmp_dir"}
               ELSE IF r2.crashed
               THEN /\ crash(r2.log, r2.msg, r2.exc, "acc_check_dest_dir")
                    /\ dirs' = dirs \cup {"tmp_dir", "dest_dir"}
               ELSE /\ log' = entry(r2.log, Ok("Making access file"))
                    /\ pc' = "acc_access"
                    /\ err' = err
                    /\ dirs' = dirs \cup {"tmp_dir", "dest_dir"}
    /\ UNCHANGED <<attempts, inp, sums, fs, links, file_objects, entity_json,
                   file_, tmp_access_path, new_files, mvnew_fails, staged, commits,
                   changelog, pre, stg, xform, gate>>

(***************************************************************************)
(* add_access, lines 642-664: the access file is made; when its SHA-1      *)
(* equals that of the access file in place (or neither exists) add_access  *)
(* returns 'pass'. same is the answer of the comparison of two digests.    *)
(***************************************************************************)
add_access_make ==
    /\ pc = "acc_access"
    /\ UNCHANGED others
    /\ \E xf \in Transforms, same \in BOOLEAN :
        /\ Charge(Cost(xf))
        /\ LET adp == access_tmp_dest(file_)
               r == make_access_file(log, fs, links, adp, xf)
               lg == r.log \o << Ok("File object"), Ok("file_") >>
               existing == access_final_path(file_) \in r.fs
               made == adp \in r.fs
               lg1 == IF existing THEN entry(lg, Ok("existing_sha1")) ELSE lg
               lg2 == IF made THEN entry(lg1, Ok("tmp_sha1")) ELSE lg1
               equal == IF existing /\ made THEN same ELSE (~existing /\ ~made)
           IN  /\ (~(existing /\ made) => same)
               /\ fs' = r.fs
               /\ links' = r.links
               /\ tmp_access_path' = r.tmp_access_path
               /\ xform' = xf
               /\ IF equal
                  THEN /\ log' = entry(lg2, Ok("New access file same as existing"))
                       /\ pc' = "returned"
                  ELSE /\ log' = entry(lg2, Ok("Writing object metadata"))
                       /\ pc' = "acc_write_meta"
    /\ UNCHANGED <<attempts, inp, sums, dirs, file_objects, entity_json, file_,
                   new_files, mvnew_fails, staged, commits, changelog, err, pre,
                   stg, gate>>

(* add_access, lines 665-670: write_object_metadata.                       *)
add_access_write_meta ==
    /\ pc = "acc_write_meta"
    /\ UNCHANGED others
    /\ \E wr \in {"ok", "nowrite", "raise"} :
        /\ Charge(Cost(wr))
        /\ LET tmp_json == tmp_json_of(file_)
               lg == entry(log, Ok("tmp_json"))
               fs1 == IF wr = "ok" THEN fs \cup {tmp_json} ELSE fs
           IN  IF wr = "raise"
               THEN uncaught(lg, "IOError", "acc_write_meta") /\ fs' = fs
               ELSE IF tmp_json \notin fs1
               THEN crash(lg, "Could not write file metadata", "Exception", "acc_write_meta")
                    /\ fs' = fs1
               ELSE /\ log' = entry(lg, Ok("Moving files to dest_dir"))
                    /\ pc' = "acc_move"
                    /\ err' = err
                    /\ fs' = fs1
    /\ UNCHANGED <<attempts, inp, sums, links, dirs, file_objects, entity_json,
                   file_, tmp_access_path, new_files, mvnew_fails, staged, commits,
                   changelog, pre, stg, xform, gate>>

(***************************************************************************)
(* add_access, lines 671-682: the relocation list holds the access file,   *)
(* when there is one; move_files, and move_new_files_back on a failure.    *)
(***************************************************************************)
access_relocation_list(obj, f, tap) ==
    IF has_access(f, tap) THEN << <<tap, access_final_path(obj)>> >> ELSE <<>>

add_access_move_new ==
    /\ pc = "acc_move"
    /\ UNCHANGED others
    /\ LET files == access_relocation_list(file_, fs, tmp_access_path) IN
       \E k \in 0..Len(files), kind \in {"noop", "raise"} :
        /\ (k = 0 => kind = "noop")
        /\ Charge(IF k = 0 THEN 0 ELSE 1)
        /\ LET r == move_files(files, log, fs, links, Outs(Len(files), k, kind))
           IN  /\ new_files' = files
               /\ fs' = r.fs
               /\ links' = r.links
               /\ IF r.raised
                  THEN uncaught(r.log, "IOError", "acc_move") /\ mvnew_fails' = mvnew_fails
                  ELSE /\ mvnew_fails' = r.failures
                       /\ err' = err
                       /\ IF ~moved_all(r.failures)
                          THEN /\ log' = entry(r.log, NotOk("Failed to place one or more new files to destination repo"))
                               /\ pc' = "move_back"
                          ELSE /\ log' = r.log \o << Ok("all files moved"),
                                                     Ok("Moving file .json to dest_dir") >>
                               /\ pc' = "acc_move_json"
    /\ UNCHANGED <<attempts, inp, sums, dirs, file_objects, entity_json, file_,
                   tmp_access_path, staged, commits, changelog, pre, stg, xform,
                   gate>>

(***************************************************************************)
(* add_access, lines 683-693: the file JSON is moved over the one in       *)
(* place. On a failure move_existing_files_back, a function of two         *)
(* parameters, is called with three arguments: TypeError.                  *)
(***************************************************************************)
add_access_move_existing ==
    /\ pc = "acc_move_json"
    /\ UNCHANGED others
    /\ LET existing_files == << <<tmp_json_of(file_), file_.json_path>> >> IN
       \E kind \in {"ok", "noop", "raise"} :
        /\ Charge(Cost(kind))
        /\ LET r == move_files(existing_files, log, fs, links, << kind >>)
           IN  /\ fs' = r.fs
               /\ links' = r.links
               /\ IF r.raised
                  THEN uncaught(r.log, "IOError", "acc_move_json")
                  ELSE IF ~moved_all(r.failures)
                  THEN uncaught(entry(r.log, NotOk("Failed to update metadata in destination repo")),
                                "TypeError", "acc_move_json")
                  ELSE /\ log' = r.log \o << Ok("all files moved"), Ok("Staging files") >>
                       /\ err' = err
                       /\ pc' = "acc_stage"
    /\ UNCHANGED <<attempts, inp, sums, dirs, file_objects, entity_json, file_,
                   tmp_access_path, new_files, mvnew_fails, staged, commits,
                   changelog, pre, stg, xform, gate>>

(* add_access, lines 694-704: the call of stage_files.                     *)
add_access_stage ==
    /\ pc = "acc_stage"
    /\ UNCHANGED others
    /\ stage_files(<< file_.json_path >>, << access_final_path(file_) >>, new_files)
    /\ UNCHANGED <<attempts, inp, sums, dirs, file_objects, entity_json, file_,
                   tmp_access_path, new_files, mvnew_fails, commits, changelog, pre,
                   xform, gate>>

(***************************************************************************)
(* The callers' arguments of add_file_commit: the author identity and the  *)
(* label of the software agent ('' when there is none).                    *)
(***************************************************************************)
Identities == { [git_name |-> "gjost", git_mail |-> "gjost@densho.org"] }
Agents == { "", "cmdln" }

(***************************************************************************)
(* The changelog and the store's history (DDR.changelog, DDR.dvcs):        *)
(* write_changelog_entry appends one entry signed by user and mail; commit *)
(* makes a commit of what is staged, with the message and the one further  *)
(* argument it is called with, and empties the index; list_committed       *)
(* reports the files of a commit.                                          *)
(***************************************************************************)
write_changelog_entry(chlog, messages, user, mail) ==
    Append(chlog, [messages |-> messages, user |-> user, mail |-> mail])
dvcs_commit(hist, index, message, author) ==
    [hexsha |-> Len(hist) + 1, message |-> message, author |-> author, files |-> index]
list_committed(hist, commit) == hist[commit.hexsha].files

(***************************************************************************)
(* add_file_commit(entity, file_, repo, log, git_name, git_mail, agent),   *)
(* lines 706-738. modified is what dvcs.list_modified(repo) answers.       *)
(* Lines 707-710 and the refusal, lines 732-737.                           *)
(***************************************************************************)
may_commit_if_staged(staged_list, modified) == staged_list # <<>>
may_commit_if_unmodified(staged_list, modified) == modified = {}
may_commit(staged_list, modified) == staged_list # <<>> /\ modified = {}

add_file_commit ==
    /\ pc = "returned"
    /\ UNCHANGED others
    /\ \E modified \in SUBSET {EntityJson, Changelog}, who \in Identities, agent \in Agents :
        /\ Charge(IF modified = {} THEN 0 ELSE 1)
        /\ LET staged_list == list_staged(staged)
               lg0 == entry(log, Ok("add_file_commit"))
           IN  /\ gate' = [NoGate EXCEPT !.ran = TRUE, !.staged = staged,
                                         !.modified = modified, !.commits = commits,
                                         !.changelog = changelog,
                                         !.git_name = who.git_name,
                                         !.git_mail = who.git_mail, !.agent = agent]
               /\ IF may_commit(staged_list, modified)
                  THEN /\ log' = lg0 \o << Ok("All files staged."), Ok("Updating changelog") >>
                       /\ err' = err
                       /\ pc' = "commit_changelog"
                  ELSE /\ log' = lg0 \o << NotOk("files staged, files modified"),
                                           NotOk("staged"), NotOk("modified"),
                                           NotOk("Can not commit!") >>
                       /\ err' = [Raised("Exception", "commit", "Could not commit bc unstaged files")
                                  EXCEPT !.paths = modified]
                       /\ pc' = "commit_raised"
    /\ UNCHANGED <<attempts, inp, sums, fs, links, dirs, file_objects, entity_json,
                   file_, tmp_access_path, new_files, mvnew_fails, staged, commits,
                   changelog, pre, stg, xform>>

(* add_file_commit, lines 713-718: the changelog entry.                    *)
changelog_messages_always_agent(obj, agent) ==
    << [text |-> "Added entity file", arg |-> obj.path_abs.sfx],
       [text |-> "@agent", arg |-> agent] >>
changelog_messages(obj, agent) ==
    << [text |-> "Added entity file", arg |-> obj.path_abs.sfx] >>
    \o (IF agent # "" THEN << [text |-> "@agent", arg |-> agent] >> ELSE <<>>)

add_file_commit_changelog ==
    /\ pc = "commit_changelog"
    /\ UNCHANGED others
    /\ changelog' = write_changelog_entry(changelog, changelog_messages(file_, gate.agent),
                                          gate.git_name, gate.git_mail)
    /\ log' = entry(log, Ok("git add changelog"))
    /\ pc' = "commit_stage"
    /\ UNCHANGED <<attempts, faults, inp, sums, fs, links, dirs, file_objects,
                   entity_json, file_, tmp_access_path, new_files, mvnew_fails,
                   staged, commits, err, pre, stg, xform, gate>>

(* add_file_commit, lines 720-721: dvcs.stage(repo, [changelog]).          *)
add_file_commit_stage ==
    /\ pc = "commit_stage"
    /\ UNCHANGED others
    /\ \E out \in {"ok", "raise"} :
        /\ Charge(Cost(out))
        /\ IF out = "raise"
           THEN /\ err' = Raised("GitCommandError", "commit_stage", "")
                /\ pc' = "commit_raised"
                /\ UNCHANGED <<log, staged>>
           ELSE /\ staged' = dvcs_stage(staged, << Changelog >>, {})
                /\ log' = entry(log, Ok("Committing"))
                /\ pc' = "commit_commit"
                /\ err' = err
    /\ UNCHANGED <<attempts, inp, sums, fs, links, dirs, file_objects, entity_json,
                   file_, tmp_access_path, new_files, mvnew_fails, commits,
                   changelog, pre, stg, xform, gate>>

(* add_file_commit, lines 724-725: dvcs.commit(repo, message, agent).      *)
add_file_commit_commit ==
    /\ pc = "commit_commit"
    /\ UNCHANGED others
    /\ \E out \in {"ok", "raise"} :
        /\ Charge(Cost(out))
        /\ IF out = "raise"
           THEN /\ err' = Raised("GitCommandError", "commit_commit", "")
                /\ pc' = "commit_raised"
                /\ UNCHANGED <<log, staged, commits>>
           ELSE /\ commits' = Append(commits, dvcs_commit(commits, staged,
                                                          "Added entity file(s)",
                                                          << gate.agent >>))
                /\ staged' = {}
                /\ log' = entry(log, Ok("commit"))
                /\ pc' = "commit_list"
                /\ err' = err
    /\ UNCHANGED <<attempts, inp, sums, fs, links, dirs, file_objects, entity_json,
                   file_, tmp_access_path, new_files, mvnew_fails, changelog, pre,
                   stg, xform, gate>>

(* add_file_commit, lines 726-730 and the return at line 738.              *)
add_file_commit_return ==
    /\ pc = "commit_list"
    /\ UNCHANGED others
    /\ LET commit == commits[Len(commits)]
           committed == list_committed(commits, commit)
       IN  /\ log' = (entry(log, Ok("files committed:")))
                     \o [j \in 1..Cardinality(committed) |-> Ok("committed")]
           /\ gate' = [gate EXCEPT !.committed = SetToSeq(committed),
                                   !.ret = [file_ |-> file_.id, repo |-> "repo",
                                            log |-> "log"]]
    /\ pc' = "committed"
    /\ UNCHANGED <<attempts, faults, inp, sums, fs, links, dirs, file_objects,
                   entity_json, file_, tmp_access_path, new_files, mvnew_fails,
                   staged, commits, changelog, err, pre, stg, xform>>

(***************************************************************************)
(* The caller goes on to its next call, with the Entity object it has or   *)
(* with one loaded anew from entity.json.                                  *)
(***************************************************************************)
Ended == pc \in {"returned", "raised", "committed", "commit_raised"}

caller_next ==
    /\ Ended
    /\ UNCHANGED others
    /\ pc' = "idle"
    /\ file_objects' \in {file_objects, entity_json}
    /\ inp' = [sha1 |-> <<"", "">>, ext |-> "", role |-> "", src |-> "", external |-> FALSE]
    /\ sums' = [md5 |-> "", sha1 |-> <<"", "">>, sha256 |-> ""]
    /\ file_' = NoFile
    /\ tmp_access_path' = None
    /\ new_files' = <<>>
    /\ mvnew_fails' = <<>>
    /\ err' = NoErr
    /\ stg' = NoStg
    /\ xform' = ""
    /\ gate' = NoGate
    /\ UNCHANGED <<attempts, faults, fs, links, dirs, log, entity_json, staged,
                   commits, changelog, pre>>

Next ==
    \/ add_local_file_begin
    \/ check_src
    \/ checksums
    \/ identifier
    \/ check_dirs
    \/ copy_to_workdir
    \/ make_access
    \/ file_object
    \/ attach_file
    \/ write_object_metadata
    \/ move_new_files
    \/ move_new_files_back
    \/ write_entity_json
    \/ add_local_file_stage
    \/ add_file_commit
    \/ add_file_commit_changelog
    \/ add_file_commit_stage
    \/ add_file_commit_commit
    \/ add_file_commit_return
    \/ caller_next

Spec == Init /\ [][Next]_vars

(***************************************************************************)
(* The three ingestion operations and the commit, called in any order.     *)
(***************************************************************************)
NextIngest ==
    \/ add_local_file_begin
    \/ check_src
    \/ checksums
    \/ identifier
    \/ check_dirs
    \/ copy_to_workdir
    \/ make_access
    \/ file_object
    \/ attach_file
    \/ write_object_metadata
    \/ move_new_files
    \/ move_new_files_back
    \/ write_entity_json
    \/ add_local_file_stage
    \/ add_external_file_begin
    \/ add_external_file_write
    \/ add_external_file_stage
    \/ add_access_begin
    \/ add_access_check_dirs
    \/ add_access_make
    \/ add_access_write_meta
    \/ add_access_move_new
    \/ add_access_move_existing
    \/ add_access_stage
    \/ add_file_commit
    \/ add_file_commit_changelog
    \/ add_file_commit_stage
    \/ add_file_commit_commit
    \/ add_file_commit_return
    \/ caller_next

SpecIngest == Init /\ [][NextIngest]_vars

(***************************************************************************)
(* add_file_commit on its own: the caller holds the file object File0 of   *)
(* an entity and calls add_file_commit on a repository in which any part   *)
(* of what add_local_file registers is staged, with or without an earlier  *)
(* commit.                                                                 *)
(***************************************************************************)
StagedSets == SUBSET {EntityJson, File0.json_path, File0.path_abs}

InitCommit ==
    /\ IdleOthers
    /\ pc = "returned"
    /\ attempts = 0
    /\ faults = 0
    /\ inp = [sha1 |-> <<"", "">>, ext |-> "", role |-> "", src |-> "", external |-> FALSE]
    /\ sums = [md5 |-> "", sha1 |-> <<"", "">>, sha256 |-> ""]
    /\ log = <<>>
    /\ fs = {File0.json_path, File0.path_abs}
    /\ links = {File0.path_abs}
    /\ dirs = {"tmp_dir", "dest_dir"}
    /\ file_objects = <<File0>>
    /\ entity_json = <<File0>>
    /\ staged \in StagedSets
    /\ \E earlier \in BOOLEAN :
        /\ commits = IF earlier THEN <<Commit0>> ELSE <<>>
        /\ changelog = IF earlier THEN <<Entry0>> ELSE <<>>
    /\ file_ = File0
    /\ tmp_access_path = None
    /\ new_files = <<>>
    /\ mvnew_fails = <<>>
    /\ err = NoErr
    /\ pre = [fs |-> fs, dirs |-> dirs, links |-> links, entity_json |-> entity_json,
              file_objects |-> file_objects, staged |-> staged, loglen |-> 0]
    /\ stg = NoStg
    /\ xform = ""
    /\ gate = NoGate

NextCommit ==
    \/ add_file_commit
    \/ add_file_commit_changelog
    \/ add_file_commit_stage
    \/ add_file_commit_commit
    \/ add_file_commit_return

SpecCommit == InitCommit /\ [][NextCommit]_vars

(***************************************************************************)
(* predict_staged on its own: any duplicate-free list of staged paths (a   *)
(* store's index lists a path once) and any list of planned paths.         *)
(***************************************************************************)
MaxPlanned == 2
StagePaths == {EntityJson, File0.json_path, File0.path_abs}
ListsUpTo(S, n) == UNION {[1..k -> S] : k \in 0..n}
DuplicateFree(q) == Cardinality(Range(q)) = Len(q)

IdleFiles ==
    /\ attempts = 0
    /\ faults = 0
    /\ inp = [sha1 |-> <<"", "">>, ext |-> "", role |-> "", src |-> "", external |-> FALSE]
    /\ sums = [md5 |-> "", sha1 |-> <<"", "">>, sha256 |-> ""]
    /\ log = <<>>
    /\ fs = {}
    /\ links = {}
    /\ dirs = {}
    /\ file_objects = <<>>
    /\ entity_json = <<>>
    /\ staged = {}
    /\ commits = <<>>
    /\ changelog = <<>>
    /\ file_ = NoFile
    /\ tmp_access_path = None
    /\ new_files = <<>>
    /\ mvnew_fails = <<>>
    /\ err = NoErr
    /\ pre = [fs |-> {}, dirs |-> {}, links |-> {}, entity_json |-> <<>>,
              file_objects |-> <<>>, staged |-> {}, loglen |-> 0]
    /\ xform = ""
    /\ gate = NoGate

files_vars == <<attempts, faults, inp, sums, fs, links, dirs, log, file_objects,
                entity_json, file_, tmp_access_path, new_files, mvnew_fails, staged,
                commits, changelog, err, pre, xform, gate>>

InitPredict ==
    /\ IdleOthers
    /\ IdleFiles
    /\ pc = "predict"
    /\ \E already \in {q \in ListsUpTo(StagePaths, Cardinality(StagePaths)) : DuplicateFree(q)},
          planned \in ListsUpTo(StagePaths, MaxPlanned) :
        stg = [NoStg EXCEPT !.already = already, !.planned = planned]

predict_staged_call ==
    /\ pc = "predict"
    /\ UNCHANGED others
    /\ pc' = "predicted"
    /\ stg' = [stg EXCEPT !.ran = TRUE,
                          !.predicted = predict_staged(stg.already, stg.planned)]
    /\ UNCHANGED files_vars

NextPredict ==
    \/ predict_staged_call

SpecPredict == InitPredict /\ [][NextPredict]_vars

(***************************************************************************)
(* The scratch paths on their own: ingestions into several aggregates, of  *)
(* any source, each deriving the scratch paths it works on (add_local_file *)
(* lines 384-388, add_access lines 628-631).                               *)
(***************************************************************************)
local_scratch_paths(parent, i, role) ==
    LET fid == child(parent, role, i.sha1)
        dest == destination_path(i, fid)
        tmp == temporary_path(i, fid)
        renamed == temporary_path_renamed(tmp, dest)
    IN  {tmp, renamed, access_path(renamed)}
access_scratch_paths(parent, i, role) ==
    LET fid == child(parent, role, i.sha1)
        obj == [id |-> fid, path_abs |-> destination_path(i, fid)]
    IN  {access_tmp_path(obj),
         temporary_path_renamed(access_tmp_path(obj),
                                destination_path([ext |-> obj.path_abs.sfx], obj.id)),
         access_tmp_dest(obj)}

ingest_vars == <<pc, stg, files_vars>>

InitScratch ==
    /\ IdleFiles
    /\ IdleOthers
    /\ pc = "scratch"
    /\ stg = NoStg

add_local_file_paths ==
    /\ pc = "scratch"
    /\ \E a \in Aggregates, i \in Sources, role \in Roles :
        work' = [work EXCEPT ![a] = local_scratch_paths(a, i, role)]
    /\ UNCHANGED <<ingest_vars, lock_vars, batch_vars, vocab_vars, sig_vars, runs_vars, upd_vars>>

add_access_paths ==
    /\ pc = "scratch"
    /\ \E a \in Aggregates, i \in Sources, role \in Roles :
        work' = [work EXCEPT ![a] = access_scratch_paths(a, i, role)]
    /\ UNCHANGED <<ingest_vars, lock_vars, batch_vars, vocab_vars, sig_vars, runs_vars, upd_vars>>

NextScratch ==
    \/ add_local_file_paths
    \/ add_access_paths

SpecScratch == InitScratch /\ [][NextScratch]_vars

(***************************************************************************)
(* Locking (models.lock, unlock, locked) as tests_models.py exercises it   *)
(* for a plain path, a collection and an entity. A lock file holds the     *)
(* text it was locked with; no file, no lock.                              *)
(***************************************************************************)
lock_overwrites(held, text) == [ret |-> "ok", held |-> {text}]
lock(held, text) ==
    IF held # {} THEN [ret |-> "locked", held |-> held]
    ELSE [ret |-> "ok", held |-> {text}]
unlock_any_text(held, text) ==
    IF held = {} THEN [ret |-> "not locked", held |-> held]
    ELSE [ret |-> "ok", held |-> {}]
unlock(held, text) ==
    IF held = {} THEN [ret |-> "not locked", held |-> held]
    ELSE IF text \notin held THEN [ret |-> "miss", held |-> held]
    ELSE [ret |-> "ok", held |-> {}]
locked(held) == held

InitLock ==
    /\ IdleFiles
    /\ IdleOthers
    /\ pc = "locking"
    /\ stg = NoStg

lock_call_lock ==
    /\ pc = "locking"
    /\ \E p \in LockPaths, text \in Texts :
        LET r == lock(lockfile[p], text) IN
        /\ lockfile' = [lockfile EXCEPT ![p] = r.held]
        /\ lock_call' = [op |-> "lock", path |-> p, text |-> text,
                         before |-> lockfile[p], ret |-> r.ret, read |-> {}]
    /\ UNCHANGED <<ingest_vars, scratch_vars, batch_vars, vocab_vars, sig_vars, runs_vars, upd_vars>>

lock_call_unlock ==
    /\ pc = "locking"
    /\ \E p \in LockPaths, text \in Texts :
        LET r == unlock(lockfile[p], text) IN
        /\ lockfile' = [lockfile EXCEPT ![p] = r.held]
        /\ lock_call' = [op |-> "unlock", path |-> p, text |-> text,
                         before |-> lockfile[p], ret |-> r.ret, read |-> {}]
    /\ UNCHANGED <<ingest_vars, scratch_vars, batch_vars, vocab_vars, sig_vars, runs_vars, upd_vars>>

lock_call_locked ==
    /\ pc = "locking"
    /\ \E p \in LockPaths :
        /\ lock_call' = [op |-> "locked", path |-> p, text |-> "",
                         before |-> lockfile[p], ret |-> "",
                         read |-> locked(lockfile[p])]
    /\ UNCHANGED <<lockfile, ingest_vars, scratch_vars, batch_vars, vocab_vars,
                   sig_vars, runs_vars, upd_vars>>

NextLock ==
    \/ lock_call_lock
    \/ lock_call_unlock
    \/ lock_call_locked

SpecLock == InitLock /\ [][NextLock]_vars

(***************************************************************************)
(* batch.update_files(csv_path, collection_path, ...), lines 811-901. The  *)
(* CSV is its headers ("ok", or with a field "missing", or with a "bad"    *)
(* header) and its rows. A row is valid or not (a required field missing,  *)
(* an invalid value); its parent entity loads or not; and it is an         *)
(* "update" (file_id is a file id whose JSON exists), a "new" file         *)
(* (file_id is a role id of six parts, no JSON yet, the source file beside *)
(* the CSV exists or not), or an "orphan" (a file id of seven parts with   *)
(* no JSON). The repository has staged files or not, modified files or not.*)
(***************************************************************************)
MaxRows == 2
Rowds == { r \in [valid : BOOLEAN, parent : BOOLEAN,
                  kind : {"update", "new", "orphan"}, src : BOOLEAN] :
             r.kind # "new" => r.src }
Some(rows, P(_)) == \E j \in 1..Len(rows) : P(rows[j])

validate_headers(headers) ==
    IF headers = "missing" THEN "MISSING HEADER(S)"
    ELSE IF headers = "bad" THEN "BAD HEADER(S)"
    ELSE ""
validate_rows(rows) ==
    LET invalid(r) == ~r.valid IN
    IF Some(rows, invalid) THEN "Row invalid" ELSE ""
test_repository_staged_only(staged_files, modified_files) ==
    IF staged_files THEN "UncommittedFilesError" ELSE ""
test_repository(staged_files, modified_files) ==
    IF staged_files THEN "UncommittedFilesError"
    ELSE IF modified_files THEN "ModifiedFilesError"
    ELSE ""
test_entities(rows) ==
    LET bad(r) == ~r.parent IN
    IF Some(rows, bad) THEN "Cannot continue!" ELSE ""
test_new_files(rows) ==
    LET bad(r) == r.kind = "new" /\ ~r.src IN
    IF Some(rows, bad) THEN "Cannot continue!" ELSE ""

InitBatch ==
    /\ IdleFiles
    /\ IdleScratch
    /\ IdleLock
    /\ IdleVocab
    /\ IdleSig
    /\ IdleRuns
    /\ IdleUpdates
    /\ pc = "upd_headers"
    /\ stg = NoStg
    /\ \E headers \in {"ok", "missing", "bad"}, rows \in ListsUpTo(Rowds, MaxRows),
          staged_files \in BOOLEAN, modified_files \in BOOLEAN :
        batch = [NoBatch EXCEPT !.headers = headers, !.rows = rows,
                                !.staged = staged_files, !.modified = modified_files]

(* A pre-check: it raises, or update_files goes on to the next step.       *)
check(exc, next) ==
    /\ IF exc # ""
       THEN pc' = "upd_raised" /\ batch' = [batch EXCEPT !.exc = exc]
       ELSE pc' = next /\ batch' = batch
    /\ UNCHANGED <<stg, files_vars, scratch_vars, lock_vars, vocab_vars, sig_vars, runs_vars, upd_vars>>

update_files_validate_headers ==
    /\ pc = "upd_headers"
    /\ check(validate_headers(batch.headers), "upd_rows")

update_files_validate_rows ==
    /\ pc = "upd_rows"
    /\ check(validate_rows(batch.rows), "upd_repository")

update_files_test_repository ==
    /\ pc = "upd_repository"
    /\ check(test_repository(batch.staged, batch.modified), "upd_entities")

update_files_test_entities ==
    /\ pc = "upd_entities"
    /\ check(test_entities(batch.rows), "upd_new_files")

update_files_test_new_files ==
    /\ pc = "upd_new_files"
    /\ check(test_new_files(batch.rows), "upd_loop")

(* lines 860-886: one row of the main loop. An update writes the file's    *)
(* JSON; a new file is ingested by entity.add_file, which stages it or     *)
(* raises; an orphan row cannot be unpacked into six id parts.             *)
update_files_row ==
    /\ pc = "upd_loop"
    /\ batch.n < Len(batch.rows)
    /\ LET n == batch.n + 1
           rowd == batch.rows[n]
       IN  \E add \in {"ok", "raise"} :
            /\ (rowd.kind # "new" => add = "ok")
            /\ IF rowd.kind = "update"
               THEN /\ batch' = [batch EXCEPT !.n = n,
                                    !.git_files = Append(@, n),
                                    !.writes = Append(@, "write_json")]
                    /\ pc' = pc
               ELSE IF rowd.kind = "orphan"
               THEN /\ batch' = [batch EXCEPT !.n = n, !.exc = "ValueError"]
                    /\ pc' = "upd_raised"
               ELSE /\ batch' = [batch EXCEPT !.n = n,
                                    !.writes = Append(@, "add_file"),
                                    !.exc = IF add = "raise" THEN "Exception" ELSE @]
                    /\ pc' = IF add = "raise" THEN "upd_raised" ELSE pc
    /\ UNCHANGED <<stg, files_vars, scratch_vars, lock_vars, vocab_vars, sig_vars, runs_vars, upd_vars>>

(* lines 888-901: the changelogs are written, then git_files are staged.   *)
update_files_changelogs ==
    /\ pc = "upd_loop"
    /\ batch.n = Len(batch.rows)
    /\ batch' = [batch EXCEPT !.writes = Append(@, "changelog"),
                              !.git_files = Append(@, 0)]
    /\ pc' = "upd_stage"
    /\ UNCHANGED <<stg, files_vars, scratch_vars, lock_vars, vocab_vars, sig_vars, runs_vars, upd_vars>>

update_files_stage ==
    /\ pc = "upd_stage"
    /\ batch' = [batch EXCEPT !.writes = Append(@, "git add")]
    /\ pc' = "upd_done"
    /\ UNCHANGED <<stg, files_vars, scratch_vars, lock_vars, vocab_vars, sig_vars, runs_vars, upd_vars>>

NextBatch ==
    \/ update_files_validate_headers
    \/ update_files_validate_rows
    \/ update_files_test_repository
    \/ update_files_test_entities
    \/ update_files_test_new_files
    \/ update_files_row
    \/ update_files_changelogs
    \/ update_files_stage

SpecBatch == InitBatch /\ [][NextBatch]_vars

(***************************************************************************)
(* vocab.Index (vocab.py, lines 67-112): terms are added in any order, a   *)
(* term id may be added again with another title or parent. parent_id 0    *)
(* is the root, as in the module's example.                                *)
(***************************************************************************)
TermIds == {1, 2}
ParentIds == {0} \cup TermIds
Titles == {"music", "jazz"}
Terms == [id : TermIds, parent_id : ParentIds, title : Titles]
NoTerm == [id |-> 0, parent_id |-> 0, title |-> ""]

add(ix, term) ==
    [terms_by_id |-> [ix.terms_by_id EXCEPT ![term.id] = term],
     titles_to_ids |-> [ix.titles_to_ids EXCEPT ![term.title] = term.id],
     parents_to_children |->
        [ix.parents_to_children EXCEPT ![term.parent_id] =
            IF term.id \in Range(@) THEN @ ELSE Append(@, term.id)]]
get_by_term_ids(ix, term_ids) ==
    LET F[j \in 0..Len(term_ids)] ==
          IF j = 0 THEN <<>>
          ELSE IF ix.terms_by_id[term_ids[j]] # NoTerm
          THEN Append(F[j - 1], ix.terms_by_id[term_ids[j]])
          ELSE F[j - 1]
    IN F[Len(term_ids)]
children(ix, term) == get_by_term_ids(ix, ix.parents_to_children[term.id])

(* Index.get(id, title), lines 85-92; 0 and "" stand for an argument left  *)
(* out, NoTerm for the None that dict.get returns.                         *)
IdOrTitleRequired == [id |-> 0, parent_id |-> 0, title |-> "id or title is required"]
get(ix, id, title) ==
    LET id2 == IF title # "" /\ id = 0 THEN ix.titles_to_ids[title] ELSE id
    IN  IF id2 # 0 THEN ix.terms_by_id[id2]
        ELSE IF title # "" /\ id = 0 THEN NoTerm
        ELSE IdOrTitleRequired
(* Index.parent(term), lines 102-105.                                      *)
parent(ix, term) ==
    IF term.parent_id \in TermIds THEN ix.terms_by_id[term.parent_id] ELSE NoTerm
(* Index.siblings(term), lines 114-120: a list, or None without a parent.  *)
siblings(ix, term) ==
    IF parent(ix, term) # NoTerm
    THEN [none |-> FALSE,
          terms |-> SelectSeq(children(ix, parent(ix, term)), LAMBDA t : t # term)]
    ELSE [none |-> TRUE, terms |-> <<>>]

(* Two objects of class Index. _terms_by_id, _titles_to_ids and             *)
(* _parents_to_children are created once, in the class body (lines 68-71);  *)
(* Index has no __init__ and no method assigns an attribute of self, so     *)
(* self._terms_by_id and the others resolve to the attributes of the class  *)
(* for every instance.                                                      *)
Indexes == {"index1", "index2"}
attributes(self) == vocab

InitVocab ==
    /\ IdleFiles
    /\ IdleScratch
    /\ IdleLock
    /\ IdleBatch
    /\ IdleSig
    /\ IdleRuns
    /\ IdleUpdates
    /\ pc = "vocab"
    /\ stg = NoStg
    /\ vocab = [terms_by_id |-> [i \in TermIds |-> NoTerm],
                titles_to_ids |-> [t \in Titles |-> 0],
                parents_to_children |-> [p \in ParentIds |-> <<>>]]
    /\ index_self = ""

Index_add ==
    /\ pc = "vocab"
    /\ \E self \in Indexes, term \in Terms :
          /\ vocab' = add(attributes(self), term)
          /\ index_self' = self
    /\ UNCHANGED <<ingest_vars, scratch_vars, lock_vars, batch_vars, sig_vars, runs_vars, upd_vars>>

NextVocab ==
    \/ Index_add

SpecVocab == InitVocab /\ [][NextVocab]_vars

(***************************************************************************)
(* signatures._choose_signatures(identifiers), signatures.py lines         *)
(* 186-223. An object id is the string of its parts joined by "-", here a  *)
(* sequence of characters: the collection "c", its entities "c-1", "c-2"   *)
(* and "c-10", and the files "c-<n>-m-a" and "c-<n>-m-b" of each entity.   *)
(* identifiers holds, per model, the sorted list of the published objects  *)
(* (_load_identifiers); an entity may have a signature_id stored in its    *)
(* JSON. The sort keeps the files of an entity together; whether entity    *)
(* numbers compare as numbers or as text is left open.                     *)
(***************************************************************************)
join(a, b) == a \o <<"-">> \o b
Cid == <<"c">>
EntityNumbers == { <<"1">>, <<"2">>, <<"1", "0">> }
Sha1s == { "a", "b" }
entity_id(n) == join(Cid, n)
file_id(n, sha1) == join(join(entity_id(n), <<"m">>), <<sha1>>)
numeric(n) == IF n = <<"1">> THEN 1 ELSE IF n = <<"2">> THEN 2 ELSE 10
textual(n) == IF n = <<"1">> THEN 1 ELSE IF n = <<"2">> THEN 3 ELSE 2
SigEntity(n, order, stored) ==
    [model |-> "entity", id |-> entity_id(n), parent_id |-> Cid,
     sort_key |-> <<IF order = "numeric" THEN numeric(n) ELSE textual(n), 0>>,
     signature_id |-> stored]
SigFile(n, sha1, order) ==
    [model |-> "file", id |-> file_id(n, sha1), parent_id |-> entity_id(n),
     sort_key |-> <<IF order = "numeric" THEN numeric(n) ELSE textual(n),
                    IF sha1 = "a" THEN 1 ELSE 2>>,
     signature_id |-> <<>>]
SigCollection ==
    [model |-> "collection", id |-> Cid, parent_id |-> <<>>, sort_key |-> <<0, 0>>,
     signature_id |-> <<>>]
SigParents == {Cid} \cup {entity_id(n) : n \in EntityNumbers}

(* SigIdentifier.__lt__, lines 70-72, and sorted(ids), line 168.           *)
lt(a, b) ==
    \/ a.sort_key[1] < b.sort_key[1]
    \/ (a.sort_key[1] = b.sort_key[1] /\ a.sort_key[2] < b.sort_key[2])
RECURSIVE sorted(_)
sorted(S) ==
    IF S = {} THEN <<>>
    ELSE LET x == CHOOSE y \in S : \A z \in S \ {y} : lt(y, z)
         IN  <<x>> \o sorted(S \ {x})

(* "pi.id in ci.id" on strings: pi.id occurs somewhere in ci.id.           *)
contains(c, p) ==
    \E k \in 1..(Len(c) - Len(p) + 1) : SubSeq(c, k, k + Len(p) - 1) = p

(* The first ci of the list that the test accepts, or none.                *)
first_where(cis, Test(_)) ==
    IF \E j \in 1..Len(cis) : Test(cis[j])
    THEN cis[CHOOSE j \in 1..Len(cis) :
                 Test(cis[j]) /\ \A k \in 1..(j - 1) : ~Test(cis[k])].id
    ELSE <<>>

choose_signature_among_parents(pi, cis) == pi.id
(* lines 197-212: the signature of one parent pi among the children cis.   *)
choose_signature(pi, cis) ==
    LET stored(ci) == ci.id = pi.signature_id
        inside(ci) == contains(ci.id, pi.id)
    IN  IF pi.signature_id # <<>> THEN first_where(cis, stored)
        ELSE first_where(cis, inside)

(* SigIdentifier._signature_id, lines 132-137: follow the chain.           *)
RECURSIVE signature_id_of(_, _)
signature_id_of(signature, id) ==
    IF id \notin DOMAIN signature \/ signature[id] = <<>> THEN id
    ELSE signature_id_of(signature, signature[id])

InitSig ==
    /\ IdleFiles
    /\ IdleScratch
    /\ IdleLock
    /\ IdleBatch
    /\ IdleVocab
    /\ IdleRuns
    /\ IdleUpdates
    /\ pc = "signatures"
    /\ stg = NoStg
    /\ \E order \in {"numeric", "text"},
          entities \in SUBSET EntityNumbers,
          files \in SUBSET (EntityNumbers \X Sha1s),
          has_stored \in SUBSET EntityNumbers :
        /\ has_stored \subseteq entities
        /\ sig = [identifiers |->
                     [collection |-> << SigCollection >>,
                      entity |-> sorted({SigEntity(n, order,
                                             IF n \in has_stored THEN file_id(n, "b")
                                             ELSE <<>>) : n \in entities}),
                      file |-> sorted({SigFile(f[1], f[2], order) : f \in files})],
                  pairs |-> << <<"entity", "file">>, <<"collection", "entity">> >>,
                  signature |-> [p \in SigParents |-> <<>>],
                  signature_id |-> [p \in SigParents |-> <<>>]]

(* lines 193-212: one (parent model, child model) pair, bottom-up.         *)
choose_signatures_pair ==
    /\ pc = "signatures"
    /\ sig.pairs # <<>>
    /\ LET parent_model == sig.pairs[1][1]
           child_model == sig.pairs[1][2]
           pis == sig.identifiers[parent_model]
           cis == sig.identifiers[child_model]
       IN  sig' = [sig EXCEPT
                     !.pairs = Tail(@),
                     !.signature =
                        [p \in SigParents |->
                            IF \E j \in 1..Len(pis) : pis[j].id = p
                            THEN LET pi == pis[CHOOSE j \in 1..Len(pis) : pis[j].id = p]
                                     chosen == choose_signature(pi, cis)
                                 IN  IF chosen # <<>> THEN chosen ELSE @[p]
                            ELSE @[p]]]
    /\ UNCHANGED <<ingest_vars, scratch_vars, lock_vars, batch_vars, vocab_vars, runs_vars, upd_vars>>

(* lines 213-223: every parent's signature_id becomes the end of its chain.*)
replace_signatures_with_ids ==
    /\ pc = "signatures"
    /\ sig.pairs = <<>>
    /\ pc' = "signatures_done"
    /\ sig' = [sig EXCEPT
                 !.signature_id =
                    [p \in SigParents |->
                        IF \E m \in {"collection", "entity"} :
                              \E j \in 1..Len(sig.identifiers[m]) :
                                  sig.identifiers[m][j].id = p
                        THEN signature_id_of(sig.signature, p)
                        ELSE @[p]]]
    /\ UNCHANGED <<stg, files_vars, scratch_vars, lock_vars, batch_vars, vocab_vars, runs_vars, upd_vars>>

NextSig ==
    \/ choose_signatures_pair
    \/ replace_signatures_with_ids

SpecSig == InitSig /\ [][NextSig]_vars

(***************************************************************************)
(* Two add_local_file calls that have reached stage_files (lines 261-320), *)
(* each for its own entity of one collection. dvcs.repository(             *)
(* entity.collection_path), line 263, gives both the repository of the     *)
(* collection, so both read and write one index. Each call of the store    *)
(* (list_staged at 272, stage at 282, annex_stage at 284, list_staged at   *)
(* 286) is a step of its own, and the steps of the two calls interleave in *)
(* any order; what follows line 286 reads only the call's locals and moves *)
(* only the call's own files. Nothing in stage_files takes a lock. As in   *)
(* the pipeline model, a registration may leave out a path (skipped).      *)
(***************************************************************************)
Ingesters == { Entity, <<"ddr-test-123", "2">> }
TheSource == [sha1 |-> <<"aaaaaaaaaa", "x">>, ext |-> ".tif"]
entity_json_path(a) == Path(<<"entity">>, a, "entity.json")
run_git_files(a) == << entity_json_path(a), json_path(child(a, "master", TheSource.sha1)) >>
run_annex_files(a) == << destination_path(TheSource, child(a, "master", TheSource.sha1)) >>
run_new_files(a) ==
    { json_path(child(a, "master", TheSource.sha1)),
      destination_path(TheSource, child(a, "master", TheSource.sha1)) }
NoRun == [pc |-> "stage", already |-> <<>>, predicted |-> <<>>, staged |-> <<>>,
          raised |-> FALSE, skipped |-> {}]

InitInterleaved ==
    /\ IdleFiles
    /\ IdleScratch
    /\ IdleLock
    /\ IdleBatch
    /\ IdleVocab
    /\ IdleSig
    /\ IdleUpdates
    /\ pc = "interleaved"
    /\ stg = NoStg
    /\ \E s0 \in SUBSET {Changelog, entity_json_path(Entity)} :
        runs = [index |-> s0, links |-> {}, moved_back |-> {},
                call |-> [a \in Ingesters |-> NoRun]]

(* lines 287-320: the except and finally clauses, and the return.          *)
finished(r, a, staged_list, raised) ==
    IF stage_ok(staged_list, r.call[a].predicted)
    THEN [r EXCEPT !.call[a].pc = "returned", !.call[a].staged = staged_list,
                   !.call[a].raised = raised]
    ELSE [r EXCEPT !.call[a].pc = "crashed", !.call[a].staged = staged_list,
                   !.call[a].raised = raised,
                   !.moved_back = @ \cup (run_new_files(a) \ r.links)]

(* lines 271-274 *)
stage_files_list_already ==
    /\ pc = "interleaved"
    /\ \E a \in Ingesters :
        /\ runs.call[a].pc = "stage"
        /\ LET stage_planned == run_git_files(a) \o run_annex_files(a)
               stage_already == list_staged(runs.index)
           IN  runs' = [runs EXCEPT
                          !.call[a].pc = "git",
                          !.call[a].already = stage_already,
                          !.call[a].predicted = predict_staged(stage_already, stage_planned)]
    /\ UNCHANGED <<ingest_vars, scratch_vars, lock_vars, batch_vars, vocab_vars, sig_vars, upd_vars>>

(* lines 281-282 *)
stage_files_git_stage ==
    /\ pc = "interleaved"
    /\ \E a \in Ingesters, out \in {"ok", "raise"} : \E skip \in Skips(run_git_files(a)) :
        /\ runs.call[a].pc = "git"
        /\ out = "raise" => skip = {}
        /\ runs' = IF out = "raise" THEN finished(runs, a, <<>>, TRUE)
                   ELSE [runs EXCEPT !.call[a].pc = "annex",
                                     !.call[a].skipped = @ \cup skip,
                                     !.index = dvcs_stage(@, run_git_files(a), skip)]
    /\ UNCHANGED <<ingest_vars, scratch_vars, lock_vars, batch_vars, vocab_vars, sig_vars, upd_vars>>

(* lines 283-285 *)
stage_files_annex_stage ==
    /\ pc = "interleaved"
    /\ \E a \in Ingesters, out \in {"ok", "raise"} : \E skip \in Skips(run_annex_files(a)) :
        /\ runs.call[a].pc = "annex"
        /\ out = "raise" => skip = {}
        /\ runs' = IF out = "raise" THEN finished(runs, a, <<>>, TRUE)
                   ELSE [runs EXCEPT !.call[a].pc = "list",
                                     !.call[a].skipped = @ \cup skip,
                                     !.index = dvcs_stage(@, run_annex_files(a), skip),
                                     !.links = @ \cup (Range(run_annex_files(a)) \ skip)]
    /\ UNCHANGED <<ingest_vars, scratch_vars, lock_vars, batch_vars, vocab_vars, sig_vars, upd_vars>>

(* line 286, then lines 290-320 *)
stage_files_list_staged ==
    /\ pc = "interleaved"
    /\ \E a \in Ingesters :
        /\ runs.call[a].pc = "list"
        /\ runs' = finished(runs, a, list_staged(runs.index), FALSE)
    /\ UNCHANGED <<ingest_vars, scratch_vars, lock_vars, batch_vars, vocab_vars, sig_vars, upd_vars>>

NextInterleaved ==
    \/ stage_files_list_already
    \/ stage_files_git_stage
    \/ stage_files_annex_stage
    \/ stage_files_list_staged

SpecInterleaved == InitInterleaved /\ [][NextInterleaved]_vars

(***************************************************************************)
(* signatures.choose(collection_path), lines 311-345, the find_updates of  *)
(* lines 347-371 (the second definition of that name, which is the one the *)
(* module ends up with) and write_updates, lines 269-286. disk is the      *)
(* signature_id in the JSON file of each parent object. SigIdentifier      *)
(* reads it when it is constructed (lines 80-83), so a parent for which    *)
(* choose finds no node keeps the stored value.                            *)
(***************************************************************************)
StoredIds == { <<>>, file_id(<<"2">>, "b") }
choose(disk, parents, nodes) ==
    [p \in SigParents |->
        IF \E j \in 1..Len(parents) : parents[j].id = p
        THEN LET inside(ni) == contains(ni.id, p \o <<"-">>)
                 found == first_where(nodes, inside)
             IN  IF found # <<>> THEN found ELSE disk[p]
        ELSE <<>>]
find_updates_all(disk, identifiers, chosen) ==
    [j \in 1..Len(identifiers) |->
        [id |-> identifiers[j].id, signature_id |-> chosen[identifiers[j].id]]]
find_updates(disk, identifiers, chosen) ==
    LET F[j \in 0..Len(identifiers)] ==
          IF j = 0 THEN <<>>
          ELSE LET i == identifiers[j]
               IN  IF disk[i.id] # chosen[i.id]
                   THEN Append(F[j - 1], [id |-> i.id, signature_id |-> chosen[i.id]])
                   ELSE F[j - 1]
    IN  F[Len(identifiers)]
write_updates(disk, updates) ==
    [p \in SigParents |->
        IF \E j \in 1..Len(updates) : updates[j].id = p
        THEN updates[CHOOSE j \in 1..Len(updates) : updates[j].id = p].signature_id
        ELSE disk[p]]

InitUpdates ==
    /\ IdleFiles
    /\ IdleScratch
    /\ IdleLock
    /\ IdleBatch
    /\ IdleVocab
    /\ IdleSig
    /\ IdleRuns
    /\ pc = "updates"
    /\ stg = NoStg
    /\ \E order \in {"numeric", "text"},
          entities \in SUBSET EntityNumbers,
          files \in SUBSET (EntityNumbers \X Sha1s),
          disk \in [SigParents -> StoredIds] :
        /\ \A n \in EntityNumbers \ entities : disk[entity_id(n)] = <<>>
        /\ upd = [disk |-> disk,
                  parents |-> sorted({SigCollection}
                                     \cup {SigEntity(n, order, disk[entity_id(n)]) :
                                              n \in entities}),
                  nodes |-> sorted({SigFile(f[1], f[2], order) : f \in files}),
                  chosen |-> [p \in SigParents |-> <<>>],
                  updates |-> <<>>,
                  phase |-> "choose",
                  round |-> 1]

choose_call ==
    /\ pc = "updates"
    /\ upd.phase = "choose"
    /\ upd' = [upd EXCEPT !.chosen = choose(upd.disk, upd.parents, upd.nodes),
                          !.updates = <<>>,
                          !.phase = "find_updates"]
    /\ UNCHANGED <<ingest_vars, scratch_vars, lock_vars, batch_vars, vocab_vars, sig_vars,
                   runs_vars>>

find_updates_call ==
    /\ pc = "updates"
    /\ upd.phase = "find_updates"
    /\ upd' = [upd EXCEPT !.updates = find_updates(upd.disk, upd.parents, upd.chosen),
                          !.phase = "write_updates"]
    /\ UNCHANGED <<ingest_vars, scratch_vars, lock_vars, batch_vars, vocab_vars, sig_vars,
                   runs_vars>>

write_updates_call ==
    /\ pc = "updates"
    /\ upd.phase = "write_updates"
    /\ upd.round = 1
    /\ upd' = [upd EXCEPT !.disk = write_updates(upd.disk, upd.updates),
                          !.phase = "choose",
                          !.round = 2]
    /\ UNCHANGED <<ingest_vars, scratch_vars, lock_vars, batch_vars, vocab_vars, sig_vars,
                   runs_vars>>

NextUpdates ==
    \/ choose_call
    \/ find_updates_call
    \/ write_updates_call

SpecUpdates == InitUpdates /\ [][NextUpdates]_vars

(***************************************************************************)
(* Vocabulary of the properties.                                           *)
(***************************************************************************)
InCall == pc # "idle"
Dests == {new_files[j][2] : j \in 1..Len(new_files)}
Scratches == {new_files[j][1] : j \in 1..Len(new_files)}
RelocationFailed == pc = "raised" /\ err.at = "move_back" /\ mvnew_fails # <<>>
StagingFailed == pc = "raised" /\ err.at = "stage"
CommitSteps == {"commit_changelog", "commit_stage", "commit_commit", "commit_list"}
Returned == pc \in {"returned", "committed", "commit_raised"} \cup CommitSteps
EarlySteps == {"check_src", "checksums", "identifier"}
PastIdentifier ==
    \/ pc \in {"check_dirs", "copy", "access", "file_object", "attach", "write_meta",
               "move", "move_back", "write_entity", "stage"}
    \/ Returned
    \/ (pc = "raised" /\ err.at \notin EarlySteps)
ChecksumsRan == InCall /\ Logged(AttemptLog, "sha256")
Unchanged_fs == fs = pre.fs /\ links = pre.links /\ dirs = pre.dirs

(***************************************************************************)
(* C1. When relocation fails at some move, then at the end of the attempt  *)
(* none of the new artifacts is at its destination path and all of them    *)
(* are at their scratch paths.                                             *)
(***************************************************************************)
C1_FailedRelocationIsUndone ==
    (RelocationFailed /\ Dests \cap pre.fs = {}) =>
        (Dests \cap fs = {} /\ Scratches \subseteq fs)

(***************************************************************************)
(* C2. When an attempt has ended (success, fatal relocation error, fatal   *)
(* staging error), entity.json lists no file whose binary and whose        *)
(* file-metadata JSON are both absent from their destination paths.        *)
(***************************************************************************)
C2_EntityJsonListsPlacedFiles ==
    (pc = "returned" \/ RelocationFailed \/ StagingFailed) =>
        \A j \in 1..Len(entity_json) :
            entity_json[j].path_abs \in fs \/ entity_json[j].json_path \in fs

(***************************************************************************)
(* C3. stage_files returns the repository only if the number of paths      *)
(* staged after registration equals |S0 \cup planned|; in every other case *)
(* it logs the mismatch and ends with an error.                            *)
(***************************************************************************)
PredictedCount == Cardinality(Range(stg.already) \cup Range(stg.planned))
C3_StageFilesReturnsOnlyOnMatch ==
    (InCall /\ stg.ran) =>
        /\ Returned => (Len(stg.staged) = PredictedCount
                        /\ (pc = "returned" => Range(stg.staged) = staged))
        /\ Len(stg.staged) # PredictedCount =>
               (/\ pc = "raised"
                /\ err.at \in {"stage", "stage_cleanup"}
                /\ Logged(AttemptLog, "new files staged (should be)"))
C3_Witness ==
    /\ pc = "returned"
    /\ Range(stg.already) \cap Range(stg.planned) # {}
    /\ Range(stg.already) \ Range(stg.planned) # {}

(***************************************************************************)
(* C4. add_file_commit never commits when list_modified is non-empty,      *)
(* whatever is staged; it raises an error listing the modified paths.      *)
(***************************************************************************)
C4_NoCommitWhenModified ==
    (InCall /\ gate.ran /\ gate.modified # {}) =>
        /\ commits = gate.commits
        /\ pc = "commit_raised"
        /\ err.exc = "Exception"
        /\ err.paths = gate.modified
C4_Witness == pc = "commit_raised" /\ gate.modified # {} /\ gate.staged # {}

(***************************************************************************)
(* C5. entity.write_json and stage_files run only after move_files         *)
(* reported no failure and every new artifact is at its destination; when  *)
(* move_files reports a failure the attempt ends with an error, the last   *)
(* log entry is 'not ok', entity.json is not rewritten and nothing is      *)
(* registered with the store.                                              *)
(***************************************************************************)
C5_EntityJsonAfterRelocation ==
    InCall =>
        /\ (pc \in {"write_entity", "stage"} \/ stg.ran) => mvnew_fails = <<>>
        /\ pc = "write_entity" => Dests \subseteq fs
        /\ Logged(AttemptLog, "Writing entity.json") => Logged(AttemptLog, "all files moved")
        /\ mvnew_fails # <<>> =>
               /\ pc \in {"move_back", "raised"}
               /\ entity_json = pre.entity_json
               /\ staged = pre.staged
               /\ ~stg.ran
               /\ pc = "raised" => (LastEntry.ok = "not ok" /\ err.exc = "Exception")
C5_Witness == RelocationFailed /\ Len(new_files) = 3 /\ Dests \cap fs # {}

(***************************************************************************)
(* C6. The new file object is appended to the entity's file collection     *)
(* only after all artifacts were moved: an attempt that fails during       *)
(* relocation leaves the in-memory file list as it was.                    *)
(***************************************************************************)
C6_AppendedOnlyAfterRelocation ==
    /\ (InCall /\ file_objects # pre.file_objects) =>
            (new_files # <<>> /\ mvnew_fails = <<>> /\ Dests \subseteq fs)
    /\ (pc = "raised" /\ err.at \in {"move", "move_back"}) =>
            file_objects = pre.file_objects

(***************************************************************************)
(* C7, as the claim has it. The check that the destination path exists     *)
(* comes before the source checks, the checksums and the XMP extraction.   *)
(***************************************************************************)
C7_DestinationCheckedFirst ==
    (pc = "raised" /\ err.exc = "FileExistsException") =>
        /\ ~Logged(AttemptLog, "check dir src_path")
        /\ ~Logged(AttemptLog, "sha1")
        /\ ~Logged(AttemptLog, "extracting XMP data")

(***************************************************************************)
(* C7, amended. The check that the destination path exists comes after     *)
(* the source check, the checksums and the XMP extraction, and before any  *)
(* step that changes the scratch area, the destination tree, the entity or *)
(* the store; when the path exists the attempt ends with                   *)
(* FileExistsException, so no later step runs.                             *)
(***************************************************************************)
C7_DestinationCheckedBeforeMutation ==
    /\ (pc = "raised" /\ err.exc = "FileExistsException") =>
          /\ err.at = "identifier"
          /\ Logged(AttemptLog, "check dir src_path")
          /\ Logged(AttemptLog, "sha256")
          /\ Logged(AttemptLog, "extracting XMP data")
          /\ LastEntry = NotOk("Can't add. Already exists")
          /\ Unchanged_fs
          /\ staged = pre.staged
          /\ entity_json = pre.entity_json
          /\ file_objects = pre.file_objects
    /\ PastIdentifier => dest_path \notin pre.fs
C7_Witness == pc = "raised" /\ err.exc = "FileExistsException"

(***************************************************************************)
(* C8. When the entity already holds a file with the identifier derived    *)
(* for the new file, add_local_file fails before relocating anything and   *)
(* overwrites no file of the destination tree.                             *)
(***************************************************************************)
HoldsDerivedId ==
    /\ InCall
    /\ sums.sha1 # <<"", "">>
    /\ \E j \in 1..Len(pre.entity_json) : pre.entity_json[j].id = fidentifier
C8_NoRelocationOnIdCollision ==
    HoldsDerivedId =>
        /\ new_files = <<>>
        /\ pc \notin {"move_back", "write_entity", "stage"}
        /\ ~Returned
        /\ (pc = "raised" => fs \cap {p \in pre.fs : p.dir = <<"files">>} = {p \in pre.fs : p.dir = <<"files">>})

(***************************************************************************)
(* C9. When one of the three digests is empty, add_local_file ends with an *)
(* error, has written nothing to the scratch area or the destination tree, *)
(* and the log of the attempt holds exactly one 'not ok' entry, that of    *)
(* the checksum step.                                                      *)
(***************************************************************************)
C9_ChecksumFailureWritesNothing ==
    (ChecksumsRan /\ (sums.md5 = "" \/ sums.sha1 = <<"", "">> \/ sums.sha256 = "")) =>
        /\ pc = "raised"
        /\ err = Raised("Exception", "checksums", "Could not calculate checksums")
        /\ Unchanged_fs
        /\ staged = pre.staged
        /\ NotOkCount(AttemptLog) = 1
        /\ LastEntry = NotOk("Could not calculate checksums")
C9_Witness == pc = "raised" /\ err.at = "checksums" /\ sums.md5 = "" /\ sums.sha1 # <<"", "">>

RenditionFailures == Transforms \ {"ok"}
C11_RenditionFailureYieldsNone ==
    (InCall /\ xform \in RenditionFailures) =>
        /\ tmp_access_path = None
        /\ NotOkCount(AttemptLog) >= 1
        /\ file_.access_abs = None
        /\ access_abs(fidentifier) \notin Dests

(***************************************************************************)
(* Vocabulary of the commit gate.                                          *)
(***************************************************************************)
LastCommit == commits[Len(commits)]
LastChange == changelog[Len(changelog)]
HasAgentLine(e) == \E k \in 1..Len(e.messages) : e.messages[k].text = "@agent"
Refused == pc = "commit_raised" /\ err.at = "commit"

(***************************************************************************)
(* C15. A successful add_file_commit appends one changelog entry for the   *)
(* added file, with an '@agent' line only when an agent is given, then     *)
(* stages the changelog, then makes exactly one commit; the list of        *)
(* committed files is read only once the commit exists.                    *)
(***************************************************************************)
C15_ChangelogStageCommitInOrder ==
    /\ pc = "commit_changelog" =>
          (changelog = gate.changelog /\ staged = gate.staged /\ commits = gate.commits)
    /\ pc \in {"commit_stage", "commit_commit", "commit_list", "committed"} =>
          /\ Len(changelog) = Len(gate.changelog) + 1
          /\ SubSeq(changelog, 1, Len(gate.changelog)) = gate.changelog
          /\ LastChange.messages[1].text = "Added entity file"
          /\ HasAgentLine(LastChange) <=> (gate.agent # "")
          /\ Len(LastChange.messages) = (IF gate.agent # "" THEN 2 ELSE 1)
    /\ pc = "commit_stage" => (staged = gate.staged /\ commits = gate.commits)
    /\ pc = "commit_commit" =>
          (staged = gate.staged \cup {Changelog} /\ commits = gate.commits)
    /\ pc \in {"commit_list", "committed"} =>
          /\ Len(commits) = Len(gate.commits) + 1
          /\ SubSeq(commits, 1, Len(gate.commits)) = gate.commits
          /\ LastCommit.files = gate.staged \cup {Changelog}
    /\ pc \in {"commit_changelog", "commit_stage", "commit_commit", "commit_list"} =>
          gate.committed = <<>>
    /\ pc = "committed" => Range(gate.committed) = LastCommit.files
C15_Witness == pc = "committed" /\ gate.agent = "" /\ gate.commits # <<>>

(***************************************************************************)
(* C16. A successful add_file_commit returns to its caller the identifier  *)
(* of the commit together with the list of the files committed.            *)
(***************************************************************************)
C16_ReturnsCommitAndFiles ==
    pc = "committed" =>
        /\ "commit" \in DOMAIN gate.ret
        /\ "committed" \in DOMAIN gate.ret
        /\ gate.ret.commit = LastCommit.hexsha
        /\ gate.ret.committed = gate.committed

(***************************************************************************)
(* C17. The commit made by add_file_commit is attributed to the author     *)
(* identity the caller supplied: dvcs.commit receives git_name and         *)
(* git_mail as the author.                                                 *)
(***************************************************************************)
C17_CommitAuthorIsCaller ==
    pc \in {"commit_list", "committed"} =>
        LastCommit.author = << gate.git_name, gate.git_mail >>

(***************************************************************************)
(* C18. add_file_commit refuses to commit when nothing is staged or when   *)
(* the store reports modified paths, and a refusal leaves the changelog,   *)
(* the staged set and the history as they were before the call.            *)
(***************************************************************************)
C18_RefusalChangesNothing ==
    (gate.ran /\ (gate.staged = {} \/ gate.modified # {})) =>
        /\ Refused
        /\ changelog = gate.changelog
        /\ staged = gate.staged
        /\ commits = gate.commits
C18_Witness == Refused /\ gate.staged = {} /\ gate.modified = {} /\ gate.changelog # <<>>

(***************************************************************************)
(* C19. An add_local_file attempt rejected while validating or             *)
(* checksumming (source missing or unreadable, no permission on the        *)
(* scratch or the destination directory, destination occupied, checksum    *)
(* failure) has created or changed no directory and no file and has        *)
(* registered nothing with the store.                                      *)
(***************************************************************************)
ValidationSteps == {"check_src", "checksums", "identifier", "check_tmp_dir",
                    "check_dest_dir"}
Rejected == pc = "raised" /\ err.at \in ValidationSteps
C19_RejectedAttemptMutatesNothing ==
    Rejected => (Unchanged_fs /\ staged = pre.staged /\ entity_json = pre.entity_json)

(***************************************************************************)
(* C12. Whenever add_local_file, add_external_file, add_access or          *)
(* add_file_commit ends by raising, the last entry of the log is a         *)
(* 'not ok' entry.                                                         *)
(***************************************************************************)
EndedRaising == pc \in {"raised", "commit_raised"}
C12_LastEntryOfFailureIsNotOk ==
    EndedRaising => (log # <<>> /\ LastEntry.ok = "not ok")

StageSteps == {"stage", "ext_stage", "acc_stage"}
C14_OperationsNeverCommit ==
    [][/\ (commits' # commits => (pc = "commit_commit" /\ pc' = "commit_list"))
       /\ (changelog' # changelog => pc = "commit_changelog")
       /\ ((pc \in StageSteps /\ pc' = "returned") =>
              (Range(stg'.planned) \subseteq staged' /\ commits' = commits))]_vars
C14_Witness ==
    /\ pc = "returned"
    /\ inp.external
    /\ file_.json_path \in staged
    /\ commits = <<>>

(***************************************************************************)
(* C20. On a staging failure, whichever operation called stage_files,      *)
(* every new artifact whose destination is not a symlink is moved back to  *)
(* its scratch path, symlinked destinations stay in place, and the call    *)
(* ends with the staging error raised by log.crash.                        *)
(***************************************************************************)
C20_StagingFailureCleansUp ==
    (InCall /\ stg.ran /\ Len(stg.staged) # Len(stg.predicted)) =>
        /\ pc = "raised"
        /\ err.at = "stage"
        /\ err.exc = "Exception"
        /\ \A j \in 1..Len(new_files) :
              \/ (new_files[j][2] \in links /\ new_files[j][2] \in fs)
              \/ (new_files[j][2] \notin fs /\ new_files[j][1] \in fs)

(***************************************************************************)
(* C21. predict_staged(already, planned) is the union of the two lists:    *)
(* for a duplicate-free already and any planned, the result holds every    *)
(* path of already and of planned, nothing else, and each path once, so    *)
(* its length is the number of distinct paths of the two lists.            *)
(***************************************************************************)
C21_PredictedIsUnion ==
    (pc = "predicted") =>
        /\ Range(stg.predicted) = Range(stg.already) \cup Range(stg.planned)
        /\ DuplicateFree(stg.predicted)
        /\ Len(stg.predicted) = Cardinality(Range(stg.already) \cup Range(stg.planned))

(***************************************************************************)
(* C23. The scratch paths of ingestions into two different aggregates      *)
(* (the scratch copy, its renamed form and the rendition's scratch path)   *)
(* never coincide, whatever the sources' names and content hashes.         *)
(***************************************************************************)
C23_ScratchPathsOfAggregatesDisjoint ==
    \A a \in Aggregates, b \in Aggregates :
        a # b => work[a] \cap work[b] = {}
C23_Witness ==
    \E a \in Aggregates, b \in Aggregates :
        /\ a # b
        /\ collection_id(a) = collection_id(b)
        /\ work[a] # {}
        /\ work[b] # {}
        /\ {p.id : p \in work[a]} \cap {p.id : p \in work[b]} # {}

(***************************************************************************)
(* C24. In add_local_file a file comes to exist at a destination path only *)
(* by a move of the relocation list, taken when md5, sha1 and sha256 have  *)
(* all been computed as non-empty values and the scratch artifact of that  *)
(* destination exists at the scratch path it is moved from.                *)
(***************************************************************************)
C24_MoveAfterChecksumsAndScratch ==
    [][\A p \in fs' \ fs :
          p.dir = <<"files">> =>
              /\ sums.md5 # ""
              /\ sums.sha1 # <<"", "">>
              /\ sums.sha256 # ""
              /\ \E j \in 1..Len(new_files') :
                    /\ new_files'[j][2] = p
                    /\ new_files'[j][1] \in fs]_vars
C24_Witness ==
    /\ pc = "write_entity"
    /\ file_.path_abs \in fs \ pre.fs
    /\ file_.json_path \in fs \ pre.fs
    /\ tmp_path_renamed \notin fs

(***************************************************************************)
(* C25. Every mutating step of the pipeline is preceded in the log by an   *)
(* entry recording it: in the step in which it happens, the copy to        *)
(* scratch has its "cp" entry and the rename its "Renaming" entry after    *)
(* it, every file that appears in the files directory by a move has an     *)
(* "mv" entry, every file moved back by the staging cleanup has its own    *)
(* entry, the entity metadata write and the store registrations have       *)
(* theirs; and when the filesystem call of a step raises, the last entry   *)
(* of the log is the entry of that step.                                   *)
(***************************************************************************)
NewEntries == SubSeq(log', Len(log) + 1, Len(log'))
CountOf(lg, m) == Cardinality({k \in 1..Len(lg) : lg[k].msg = m})
FilesDir(S) == {p \in S : p.dir = <<"files">>}
MoveSteps == {"move", "move_back", "acc_move", "acc_move_json"}
StepEntry == [copy |-> "cp", rename |-> "Renaming", write_meta |-> "tmp_json",
              move |-> "mv", acc_move |-> "mv", acc_move_json |-> "mv",
              stage_cleanup |-> "mv back"]
C25_MutationsAreLoggedFirst ==
    [][/\ (pc = "copy" /\ fs' # fs) =>
              /\ \E k \in 1..Len(NewEntries) : NewEntries[k].msg = "cp"
              /\ (tmp_path_renamed \in fs' =>
                     \E k \in 1..Len(NewEntries), l \in 1..Len(NewEntries) :
                         k < l /\ NewEntries[k].msg = "cp" /\ NewEntries[l].msg = "Renaming")
       /\ (pc \in MoveSteps =>
              Cardinality(FilesDir(fs' \ fs)) <= CountOf(NewEntries, "mv"))
       /\ (pc \in StageSteps =>
              Cardinality(FilesDir(fs \ fs')) <= CountOf(NewEntries, "mv back"))
       /\ (entity_json' # entity_json =>
              \/ Logged(NewEntries, "Writing entity.json")
              \/ Logged(NewEntries, "Writing entity metadata"))
       /\ ((pc \in StageSteps /\ staged' # staged) => Logged(NewEntries, "git stage"))
       /\ ((pc \in StageSteps /\ links' # links /\ fs' = fs) =>
              Logged(NewEntries, "annex stage"))
       /\ ((pc' = "raised" /\ pc # "raised" /\ err'.exc = "IOError"
            /\ err'.at \in DOMAIN StepEntry) =>
              /\ log' # <<>>
              /\ log'[Len(log')].msg = StepEntry[err'.at])]_vars
C25_Witness ==
    /\ pc = "raised"
    /\ err.exc = "IOError"
    /\ err.at = "move"
    /\ file_.json_path \in fs
    /\ file_.path_abs \notin fs
    /\ LastEntry.msg = "mv"
    /\ CountOf(AttemptLog, "mv") = 2

(***************************************************************************)
(* C26. lock(path, text) on an unlocked path returns 'ok' and the path     *)
(* then holds text (locked(path) returns it); lock on a locked path        *)
(* returns 'locked' and leaves the held text as it was; so a path never    *)
(* holds more than one lock text.                                          *)
(***************************************************************************)
C26_LockIsExclusive ==
    /\ (lock_call.op = "lock" /\ lock_call.before = {}) =>
           /\ lock_call.ret = "ok"
           /\ locked(lockfile[lock_call.path]) = {lock_call.text}
    /\ (lock_call.op = "lock" /\ lock_call.before # {}) =>
           /\ lock_call.ret = "locked"
           /\ lockfile[lock_call.path] = lock_call.before
    /\ (lock_call.op = "locked" => lock_call.read = lockfile[lock_call.path])
    /\ \A p \in LockPaths : Cardinality(lockfile[p]) <= 1
C26_Witness ==
    /\ lock_call.op = "lock"
    /\ lock_call.ret = "locked"
    /\ lock_call.text \notin lock_call.before
    /\ lockfile[lock_call.path] = lock_call.before

(***************************************************************************)
(* C27. unlock(path, text) returns 'not locked' when no lock is held; it   *)
(* returns 'miss' and leaves the lock held when the held text differs from *)
(* text; it returns 'ok' when the text matches, and then the path is not   *)
(* locked and its lock file is gone.                                       *)
(***************************************************************************)
C27_UnlockNeedsTheText ==
    lock_call.op = "unlock" =>
        /\ (lock_call.before = {} =>
               lock_call.ret = "not locked" /\ lockfile[lock_call.path] = {})
        /\ ((lock_call.before # {} /\ lock_call.text \notin lock_call.before) =>
               lock_call.ret = "miss" /\ lockfile[lock_call.path] = lock_call.before)
        /\ (lock_call.text \in lock_call.before =>
               lock_call.ret = "ok" /\ locked(lockfile[lock_call.path]) = {})
C27_Witness ==
    /\ lock_call.op = "unlock"
    /\ lock_call.ret = "miss"
    /\ lockfile[lock_call.path] # {}
    /\ \E p \in LockPaths : p # lock_call.path /\ lockfile[p] = {}

(***************************************************************************)
(* C28. update_files writes, ingests and stages nothing unless the headers *)
(* are valid, every row is valid, the repository has no staged and no      *)
(* modified files, every parent entity loads and every new file's source   *)
(* exists; a failing check raises with nothing written.                    *)
(***************************************************************************)
InvalidRow(r) == ~r.valid
NoParent(r) == ~r.parent
NoSource(r) == r.kind = "new" /\ ~r.src
PreChecksHold ==
    /\ batch.headers = "ok"
    /\ ~Some(batch.rows, InvalidRow)
    /\ ~batch.staged
    /\ ~batch.modified
    /\ ~Some(batch.rows, NoParent)
    /\ ~Some(batch.rows, NoSource)
C28_NothingWrittenBeforeChecksPass ==
    /\ (batch.writes # <<>> => PreChecksHold)
    /\ (pc \in {"upd_loop", "upd_stage", "upd_done"} => PreChecksHold)
    /\ ((pc = "upd_raised" /\ ~PreChecksHold) => batch.writes = <<>>)
C28_Witness ==
    /\ pc = "upd_raised"
    /\ batch.headers = "ok"
    /\ ~batch.staged
    /\ batch.modified
    /\ batch.exc = "ModifiedFilesError"
    /\ Len(batch.rows) = 2
    /\ batch.rows[1].kind = "update"
    /\ batch.rows[2].kind = "new"
    /\ batch.writes = <<>>

(***************************************************************************)
(* C29. After any sequence of Index.add calls, also when a term id is      *)
(* added again with another parent_id, children(t) is exactly the terms    *)
(* now in the index whose parent_id is t.id, each of them once.            *)
(***************************************************************************)
InIndex == {vocab.terms_by_id[i] : i \in TermIds} \ {NoTerm}
C29_ChildrenAreTheTermsWithThatParent ==
    pc = "vocab" =>
        \A t \in InIndex :
            /\ Range(children(vocab, t)) = {u \in InIndex : u.parent_id = t.id}
            /\ DuplicateFree(children(vocab, t))

(***************************************************************************)
(* C30. _choose_signatures gives every parent object without a stored      *)
(* signature a signature among its own children: the first publishable     *)
(* child in sort order that descends from that parent, and never an        *)
(* object that belongs to another parent.                                  *)
(***************************************************************************)
Descends(id, ancestor) ==
    id # ancestor /\ Len(id) > Len(ancestor) + 1
    /\ SubSeq(id, 1, Len(ancestor) + 1) = ancestor \o <<"-">>
C30_SignatureIsOwnFirstChild ==
    pc = "signatures_done" =>
        \A j \in 1..Len(sig.identifiers.entity) :
            LET pi == sig.identifiers.entity[j]
                own(ci) == Descends(ci.id, pi.id)
            IN  pi.signature_id = <<>> =>
                    sig.signature[pi.id] = first_where(sig.identifiers.file, own)

(***************************************************************************)
(* C31. After _choose_signatures, the signature_id of every collection or  *)
(* entity among the identifiers is either empty or the id of one of the    *)
(* file objects: the chain of signatures from a parent ends at a file.     *)
(***************************************************************************)
FileIds == {sig.identifiers.file[j].id : j \in 1..Len(sig.identifiers.file)}
C31_SignatureIdIsEmptyOrFile ==
    pc = "signatures_done" =>
        \A p \in SigParents :
            (\E m \in {"collection", "entity"} :
                \E j \in 1..Len(sig.identifiers[m]) : sig.identifiers[m][j].id = p)
                => (sig.signature_id[p] = <<>> \/ sig.signature_id[p] \in FileIds)

(***************************************************************************)
(* C32. Each Index has its own state: adding a term to one Index instance  *)
(* never changes what get, parent, children or siblings return on another  *)
(* Index instance.                                                         *)
(***************************************************************************)
answers(ix) ==
    [get_id |-> [i \in TermIds |-> get(ix, i, "")],
     get_title |-> [t \in Titles |-> get(ix, 0, t)],
     parent |-> [t \in Terms |-> parent(ix, t)],
     children |-> [t \in Terms |-> children(ix, t)],
     siblings |-> [t \in Terms |-> siblings(ix, t)]]
C32_IndexInstancesAreIndependent ==
    [][\A other \in Indexes \ {index_self'} :
           answers(attributes(other))' = answers(attributes(other))]_vars

(***************************************************************************)
(* C33. add_file_commit creates a commit only when the staged set is       *)
(* non-empty and the modified set is empty; called with nothing staged it  *)
(* raises without writing the changelog and without committing.            *)
(***************************************************************************)
C33_CommitNeedsStagedAndUnmodified ==
    gate.ran =>
        /\ (commits # gate.commits \/ pc \in CommitSteps) =>
               (gate.staged # {} /\ gate.modified = {})
        /\ gate.staged = {} =>
               /\ pc = "commit_raised"
               /\ err.exc = "Exception"
               /\ err.at = "commit"
               /\ changelog = gate.changelog
               /\ commits = gate.commits
               /\ staged = {}
C33_Witness ==
    /\ gate.ran
    /\ gate.staged = {}
    /\ gate.modified = {}
    /\ pc = "commit_raised"
    /\ LastEntry = NotOk("Can not commit!")

(***************************************************************************)
(* C34. Two add_local_file runs into different aggregates of the same      *)
(* collection, interleaved without a common lock, do not disturb each      *)
(* other: each run whose own registrations succeed passes its staged-count *)
(* check and returns success.                                              *)
(***************************************************************************)
C34_RunsIntoDifferentAggregatesSucceed ==
    pc = "interleaved" =>
        \A a \in Ingesters :
            (/\ runs.call[a].pc \in {"returned", "crashed"}
             /\ ~runs.call[a].raised
             /\ runs.call[a].skipped = {}) =>
                runs.call[a].pc = "returned"

(***************************************************************************)
(* C35. If dvcs.stage or dvcs.annex_stage raises inside stage_files, the   *)
(* call is treated as a staging failure: the traceback is logged as        *)
(* 'not ok', the cleanup is entered, and stage_files ends with an error;   *)
(* it never returns the repository to its caller.                          *)
(***************************************************************************)
C35_RaisedRegistrationIsStagingFailure ==
    (InCall /\ stg.ran /\ stg.raised) =>
        /\ stg.staged = <<>>
        /\ \E k \in 1..Len(AttemptLog) : AttemptLog[k] = NotOk("traceback")
        /\ \E k \in 1..Len(AttemptLog) :
               AttemptLog[k] = NotOk("File staging aborted. Cleaning up")
        /\ pc = "raised"
        /\ err.at \in {"stage", "stage_cleanup"}
        /\ ~Returned
C35_Witness ==
    /\ stg.ran
    /\ stg.raised
    /\ stg.already # <<>>
    /\ pc = "raised"
    /\ err.at = "stage"
    /\ LastEntry = NotOk("Add file aborted, see log file for details")

(***************************************************************************)
(* C36. Whenever stage_files returns success, every path in planned        *)
(* (git_files + annex_files) is in the staged set S1, and S1 contains no   *)
(* path outside S0 \cup planned.                                           *)
(***************************************************************************)
C36_SuccessMeansPlannedIsStaged ==
    pc = "interleaved" =>
        \A a \in Ingesters :
            runs.call[a].pc = "returned" =>
                LET planned == Range(run_git_files(a) \o run_annex_files(a))
                    S0 == Range(runs.call[a].already)
                    S1 == Range(runs.call[a].staged)
                IN  planned \subseteq S1 /\ S1 \subseteq S0 \cup planned

(***************************************************************************)
(* C37. add_access returns 'pass', having changed nothing in the           *)
(* destination tree, the file metadata or the staged set, only when a      *)
(* newly generated access file and an existing access file both exist (and *)
(* have equal SHA-1); whenever it returns 'continue', a new access file    *)
(* was generated and relocated to its destination.                         *)
(***************************************************************************)
InAddAccess == InCall /\ Logged(AttemptLog, "ddrfile")
ReturnedPass ==
    InAddAccess /\ pc = "returned" /\ Logged(AttemptLog, "New access file same as existing")
ReturnedContinue == InAddAccess /\ pc = "returned" /\ stg.ran
C37_PassOnlyWhenBothExist ==
    /\ ReturnedPass =>
           /\ access_final_path(file_) \in fs
           /\ access_tmp_dest(file_) \in fs
           /\ staged = pre.staged
           /\ {p \in fs : p.dir = <<"files">>} = {p \in pre.fs : p.dir = <<"files">>}
    /\ ReturnedContinue =>
           /\ new_files = << <<tmp_access_path, access_final_path(file_)>> >>
           /\ access_final_path(file_) \in fs
           /\ tmp_access_path \notin fs

(***************************************************************************)
(* C38. For every set of identifiers that _choose_signatures can produce,  *)
(* following the signature chain terminates: every signature link leads    *)
(* from an object of a parent model to an object of one of its child       *)
(* models, so no chain contains a cycle (here: a chain has at most two     *)
(* links, collection to entity to file).                                   *)
(***************************************************************************)
SigModel(id) ==
    IF id = Cid THEN "collection"
    ELSE IF id \in {entity_id(n) : n \in EntityNumbers} THEN "entity"
    ELSE "file"
SigNext(id) ==
    IF id \in SigParents /\ sig.signature[id] # <<>> THEN sig.signature[id] ELSE id
C38_SignatureLinksLeadToChildModels ==
    pc \in {"signatures", "signatures_done"} =>
        \A p \in SigParents :
            /\ sig.signature[p] # <<>> =>
                   \/ SigModel(p) = "collection" /\ SigModel(sig.signature[p]) = "entity"
                   \/ SigModel(p) = "entity" /\ SigModel(sig.signature[p]) = "file"
            /\ SigNext(SigNext(SigNext(p))) = SigNext(SigNext(p))
            /\ pc = "signatures_done" /\ sig.signature_id[p] # <<>> =>
                   sig.signature_id[p] = SigNext(SigNext(p))
C38_Witness ==
    /\ pc = "signatures_done"
    /\ SigModel(sig.signature[Cid]) = "entity"
    /\ sig.signature[Cid] # <<>>
    /\ SigModel(SigNext(SigNext(Cid))) = "file"
    /\ sig.signature_id[Cid] = SigNext(SigNext(Cid))

(***************************************************************************)
(* C39. Signature updating is idempotent: find_updates returns exactly the *)
(* objects whose stored signature_id differs from the chosen one, and      *)
(* after write_updates has written them, running choose and find_updates   *)
(* again on the unchanged collection returns no updates.                   *)
(***************************************************************************)
UpdParents == {upd.parents[j].id : j \in 1..Len(upd.parents)}
C39_SignatureUpdatingIsIdempotent ==
    (pc = "updates" /\ upd.phase = "write_updates") =>
        /\ {upd.updates[j].id : j \in 1..Len(upd.updates)}
               = {p \in UpdParents : upd.disk[p] # upd.chosen[p]}
        /\ \A j, k \in 1..Len(upd.updates) :
               upd.updates[j].id = upd.updates[k].id => j = k
        /\ \A j \in 1..Len(upd.updates) :
               upd.updates[j].signature_id = upd.chosen[upd.updates[j].id]
        /\ upd.round = 2 => upd.updates = <<>>
C39_Witness ==
    /\ pc = "updates"
    /\ upd.phase = "write_updates"
    /\ upd.round = 2
    /\ \E p \in UpdParents : upd.disk[p] \notin StoredIds
    /\ \E p \in UpdParents : upd.disk[p] = file_id(<<"2">>, "b") /\ upd.chosen[p] = upd.disk[p]

====
